---- MODULE Spec2Model ----
(***************************************************************************)
(* State-machine model of the MySQL access layer of PRIVAI-QA:             *)
(*   src/src/agents/common/toolkits/mysql/connection.py                    *)
(*     MySQLConnectionManager, execute_query_with_timeout,                 *)
(*     limit_result_size                                                   *)
(*   src/src/agents/common/toolkits/mysql/tools.py                         *)
(*     get_connection_manager, mysql_list_tables, mysql_query              *)
(*                                                                         *)
(* Threads are pairs <<name, k>>: <<name, 0>> is a calling thread,         *)
(* <<name, k>> with k > 0 is the pool thread that the k-th operation of    *)
(* that caller started (execute_query_with_timeout builds a new            *)
(* ThreadPoolExecutor, hence a new thread, on every call).                 *)
(*                                                                         *)
(* The driver (pymysql) is modelled by what its Connection does:           *)
(*   open      <=> the socket is set (Connection.open)                     *)
(*   closed    <=> close() has been called (Connection._closed)            *)
(*   close()   raises Error("Already closed") when closed, and otherwise   *)
(*             always leaves the handle closed and not open                *)
(*   a statement, commit or rollback on a handle that is not open raises   *)
(*             InterfaceError; a lost connection (OperationalError)        *)
(*             leaves the handle not open                                  *)
(*                                                                         *)
(* An operation ends in pc = "done" with its outcome in res; Finish then   *)
(* drops the frame (locals, outcome, logs) and the thread is idle again.   *)
(***************************************************************************)
EXTENDS Integers, Sequences, FiniteSets, TLC

\* ------------------------------------------------------------------ bounds
CallerNames == {"t1", "t2"}
MaxOps == 2          \* operations the concurrent callers start, in all
MaxLifeOps == 2      \* operations of the caller that runs alone
MaxLockOps == 3      \* get_connection calls of the two callers, in all
MaxGmCalls == 2      \* get_connection_manager calls of one caller
MaxRequests == 12    \* requests of one client address in one run
MaxDepth == 2        \* largest max_depth of a subgraph search
MaxNodes == 3        \* largest max_nodes of a subgraph search
MaxLimiterTicks == 2 \* advances of the monotonic clock in one run
MaxHandles == 3      \* connections the server accepts in one run
MaxTicks == 2        \* clock advances in one run
MaxStmts == 1        \* calls the body of one cursor scope makes
MaxFaults == 2       \* cursor, statement, commit, rollback and body failures
MaxConnFails == 3    \* failed connect attempts in one run
MaxRows == 3         \* rows of a result set
MaxChars == 48       \* largest character budget tried

\* ------------------------------------------------------- program constants
max_connection_age == 3600
create_max_retries == 3
cursor_max_retries == 2

None == 0
Handles == 1..MaxHandles
Callers == {<<n, 0>> : n \in CallerNames}
Threads == {<<n, k>> : n \in CallerNames, k \in 0..MaxOps}
NoThread == <<"none", 0>>
NoExc == "none"
TickSteps == {max_connection_age}

VARIABLES
    now,      \* time.time()
    ticks,    \* clock advances so far
    faults,   \* failures injected so far
    cfails,   \* connect attempts failed so far
    lock,     \* MySQLConnectionManager._lock: the holder, or NoThread
    cache,    \* MySQLConnectionManager._local: key -> [conn, last]
    conns,    \* handle -> [creator, open, closed] (pymysql.Connection)
    nextH,    \* next handle the driver hands out
    pc,       \* thread -> position in the manager's code
    loc,      \* thread -> local variables of the running operation
    budget,   \* operations the callers may still start
    res,      \* thread -> outcome of the operation that just ended
    used,     \* handle -> threads that called a method of it
    inflight, \* <<thread, handle>>: a statement is executing
    trace,    \* thread -> events of its current operation, in order
    sleeps,   \* thread -> pauses slept (seconds), in order
    bnd,      \* one call of limit_result_size: [pc, result, max_chars, out]
    tool,     \* tools.py: the global manager, the tool call under way
    gm,       \* get_connection_manager: the global and each caller's call
    rl,       \* server/main.py: the login attempts of one client address
    kg        \* one call of _bfs_subgraph: graph, arguments, result

vars == <<now, ticks, faults, cfails, lock, cache, conns, nextH, pc, loc,
          budget, res, used, inflight, trace, sleeps, bnd, tool, gm, rl, kg>>

\* faulty variant: one slot for all threads (a plain attribute)
LocalKeyShared(t) == <<"t1", 0>>

\* line 19, threading.local(): one slot per thread
LocalKey(t) == t

EmptyEntry == [conn |-> None, last |-> 0]
NoConn == [creator |-> NoThread, open |-> FALSE, closed |-> FALSE]
NoQuery == [h |-> None, stale |-> FALSE, open |-> FALSE]
InitLoc == [op |-> "-", ret |-> "-", ct |-> 0, conn |-> None, cur |-> "none",
            attempt |-> 0, cattempt |-> 0, exc |-> NoExc,
            entry |-> EmptyEntry, created |-> None, stmts |-> 0,
            body |-> "-", bexc |-> NoExc, q |-> NoQuery, worker |-> NoThread]
NoRes == [kind |-> "-", exc |-> NoExc, val |-> None]
Result(kind, exc, val) == [kind |-> kind, exc |-> exc, val |-> val]

\* _get_local_connection / _get_local_last_time
GetLocal(t) == cache[LocalKey(t)]

\* _set_local_connection + _set_local_last_time
SetLocal(c, t, h, last) == [c EXCEPT ![LocalKey(t)] = [conn |-> h, last |-> last]]

\* the manager after construction (lines 17-21), no thread in it
MgrInit ==
    /\ now = 0
    /\ ticks = 0
    /\ faults = 0
    /\ cfails = 0
    /\ lock = NoThread
    /\ cache = [t \in Threads |-> EmptyEntry]
    /\ conns = [h \in Handles |-> NoConn]
    /\ nextH = 1
    /\ pc = [t \in Threads |-> IF t \in Callers THEN "idle" ELSE "unborn"]
    /\ loc = [t \in Threads |-> InitLoc]
    /\ res = [t \in Threads |-> NoRes]
    /\ used = [h \in Handles |-> {}]
    /\ inflight = {}
    /\ trace = [t \in Threads |-> <<>>]
    /\ sleeps = [t \in Threads |-> <<>>]

NoCall == [pc |-> "-", result |-> <<>>, max_chars |-> 0, out |-> <<>>]

\* tools.py line 18, _connection_manager = None, and no tool call under way
NoTool == [manager |-> FALSE, stage |-> "-", sql |-> "-", exc |-> NoExc,
           entry |-> EmptyEntry, text |-> "-", missing |-> {},
           rows |-> 0, shown |-> 0, warning |-> FALSE, columns |-> "-"]

\* server/main.py line 25: no attempt recorded, no request under way
NoLimiter == [hist |-> <<>>, clock |-> 0, ticks |-> 0, arrived |-> 0,
              waiting |-> 0, last |-> "-"]

\* no _bfs_subgraph call
NoSearch == [pc |-> "-", graph |-> <<>>, seeds |-> <<>>, max_depth |-> 0,
             max_nodes |-> 0, nodes |-> {}, edges |-> {}]

\* tools.py line 18 again, for callers of get_connection_manager: the
\* global, the instances constructed so far, and per caller the position
\* in its call, the instance it constructed, what the call gave, and the
\* calls it has made
GmInit == [global |-> None, made |-> 0,
           pc |-> [t \in Callers |-> "idle"],
           inst |-> [t \in Callers |-> None],
           got |-> [t \in Callers |-> None],
           exc |-> [t \in Callers |-> NoExc],
           calls |-> [t \in Callers |-> 0]]

Init ==
    /\ MgrInit
    /\ budget = MaxOps
    /\ bnd = NoCall
    /\ tool = NoTool
    /\ gm = GmInit
    /\ rl = NoLimiter
    /\ kg = NoSearch

\* the wall clock advances
Tick ==
    /\ ticks < MaxTicks
    /\ \E d \in TickSteps : now' = now + d
    /\ ticks' = ticks + 1
    /\ UNCHANGED <<faults, cfails, lock, cache, conns, nextH, pc, loc, budget,
                   res, used, inflight, trace, sleeps>>

\* a calling thread starts an operation
Begin(t, op, ret, at) ==
    /\ pc[t] = "idle"
    /\ budget > 0
    /\ budget' = budget - 1
    /\ pc' = [pc EXCEPT ![t] = at]
    /\ loc' = [loc EXCEPT ![t] = [InitLoc EXCEPT !.op = op, !.ret = ret]]

\* the operation has returned or raised: its frame is gone
Finish(t) ==
    /\ pc[t] = "done"
    /\ pc' = [pc EXCEPT ![t] = "idle"]
    /\ loc' = [loc EXCEPT ![t] = InitLoc]
    /\ res' = [res EXCEPT ![t] = NoRes]
    /\ trace' = [trace EXCEPT ![t] = <<>>]
    /\ sleeps' = [sleeps EXCEPT ![t] = <<>>]
    /\ UNCHANGED <<cfails, now, ticks, faults, lock, cache, conns, nextH, budget, used,
                   inflight>>

\* ------------------------------------------------------------ the driver
\* Connection.close(): TRUE when it returns, FALSE when it raises
CloseOk(cs, h) == ~cs[h].closed
DriverClose(cs, h) == [cs EXCEPT ![h].open = FALSE, ![h].closed = TRUE]
Use(u, h, t) == [u EXCEPT ![h] = @ \cup {t}]

QueryErrors == {"ProgrammingError", "OperationalError"}
BodyErrors == {"ValueError", "RuntimeError"}

\* outcomes of a statement, commit or rollback on h: NoExc, or the error
Outcomes(cs, h) ==
    IF cs[h].open
    THEN {NoExc} \cup (IF faults < MaxFaults THEN QueryErrors ELSE {})
    ELSE {"InterfaceError"}

\* injected failures an outcome counts for
Cost(cs, h, e) == IF cs[h].open /\ e # NoExc THEN 1 ELSE 0

\* the handle after the outcome e: OperationalError is the lost connection
AfterError(cs, h, e) ==
    IF e = "OperationalError" THEN [cs EXCEPT ![h].open = FALSE] ELSE cs

\* ------------------------------------------------------------ exceptions
\* str(e), word by word
ExcText(e) ==
    CASE e = "ConnectionError"   -> <<"MySQL", "connection", "failed">>
      [] e = "KeyError"          -> <<"'host'">>
      [] e = "CursorError"       -> <<"cursor", "unavailable">>
      [] e = "ProgrammingError"  -> <<"(1146,", "Table", "doesn't", "exist)">>
      [] e = "OperationalError"  -> <<"(2013,", "Lost", "connection", "to",
                                      "MySQL", "server)">>
      [] e = "InterfaceError"    -> <<"(0,", "'')">>
      [] e = "ValueError"        -> <<"bad", "value">>
      [] e = "RuntimeError"      -> <<"Connection", "reset">>
      [] e = "QueryTimeoutError" -> <<"Query", "timeout", "after", "seconds">>
      [] e = "AlreadyClosed"     -> <<"Already", "closed">>
      [] OTHER                   -> <<>>

\* str.lower() on one character: a capital letter becomes the small one,
\* any other character of the texts stays
LowerChar(c) ==
    CASE c = "A" -> "a"
      [] c = "B" -> "b"
      [] c = "C" -> "c"
      [] c = "D" -> "d"
      [] c = "E" -> "e"
      [] c = "F" -> "f"
      [] c = "G" -> "g"
      [] c = "H" -> "h"
      [] c = "I" -> "i"
      [] c = "J" -> "j"
      [] c = "K" -> "k"
      [] c = "L" -> "l"
      [] c = "M" -> "m"
      [] c = "N" -> "n"
      [] c = "O" -> "o"
      [] c = "P" -> "p"
      [] c = "Q" -> "q"
      [] c = "R" -> "r"
      [] c = "S" -> "s"
      [] c = "T" -> "t"
      [] c = "U" -> "u"
      [] c = "V" -> "v"
      [] c = "W" -> "w"
      [] c = "X" -> "x"
      [] c = "Y" -> "y"
      [] c = "Z" -> "z"
      [] OTHER   -> c

\* str.lower(): every character of the text is lowered
RECURSIVE Lower(_)
Lower(w) == IF w = "" THEN "" ELSE LowerChar(Head(w)) \o Lower(Tail(w))

\* faulty variant: "connection" is looked for as written, not in any case
ConnFaultCaseSensitive(e) ==
    \E i \in DOMAIN ExcText(e) :
        ExcText(e)[i] = "MySQL" \/ ExcText(e)[i] = "connection"

\* line 158: "MySQL" in str(e) or "connection" in str(e).lower()
ConnFault(e) ==
    \E i \in DOMAIN ExcText(e) :
        ExcText(e)[i] = "MySQL" \/ Lower(ExcText(e)[i]) = "connection"

\* ---------------------------------------------------- _invalidate_connection
\* faulty variant: the slot is cleared whatever handle was given
InvalidateCacheAlways(c, t, h) == SetLocal(c, t, None, 0)

\* faulty variant: the handle is not closed
InvalidateConnsSkipped(cs, h) == cs

\* lines 112-116: close, swallowing the error
InvalidateConns(cs, h) ==
    IF h # None /\ CloseOk(cs, h) THEN DriverClose(cs, h) ELSE cs

\* lines 117-121: clear the slot when h is None or is the cached handle
InvalidateCache(c, t, h) ==
    IF h = None \/ c[LocalKey(t)].conn = h
    THEN SetLocal(c, t, None, 0)
    ELSE c

InvalidateUsed(u, t, h) == IF h # None THEN Use(u, h, t) ELSE u

\* --------------------------------------------------------- _get_connection
\* where _get_connection returns to, by its caller
RetPc(t) ==
    CASE loc[t].ret = "api"    -> "done"
      [] loc[t].ret = "cursor" -> "cur_open"
      [] loc[t].ret = "worker" -> "w_cursor"

\* where an exception of _get_connection lands
RaisePc(t) ==
    CASE loc[t].ret = "api"    -> "done"
      [] loc[t].ret = "cursor" -> "cur_fail"
      [] loc[t].ret = "worker" -> "w_done"

RetRes(t, h) ==
    IF loc[t].ret = "api"
    THEN [res EXCEPT ![t] = Result("return", NoExc, h)]
    ELSE res

RaiseRes(t, e) ==
    IF loc[t].ret \in {"api", "worker"}
    THEN [res EXCEPT ![t] = Result("raise", e, None)]
    ELSE res

\* faulty variant: the age is not looked at
NeedsRefreshNoAge(h, ct, last) == h = None \/ ~conns[h].open

\* faulty variant: connection.open is not looked at
NeedsRefreshNoOpen(h, ct, last) ==
    h = None \/ ct - last > max_connection_age

\* lines 41-45 and 51-55: no handle, a handle that reports closed, or too old
NeedsRefresh(h, ct, last) ==
    \/ h = None
    \/ ~conns[h].open
    \/ ct - last > max_connection_age

\* faulty variant: every call goes on to the lock
GC_CheckAlwaysLocks(t) ==
    /\ pc[t] = "gc_check"
    /\ pc' = [pc EXCEPT ![t] = "gc_lock"]
    /\ loc' = [loc EXCEPT ![t].ct = now, ![t].entry = GetLocal(t),
                          ![t].created = None]
    /\ UNCHANGED <<cfails, now, ticks, faults, lock, cache, conns, nextH, budget, used,
                   inflight, trace, sleeps, res>>

\* lines 37-45: read the clock and the thread's slot, first check
GC_Check(t) ==
    /\ pc[t] = "gc_check"
    /\ LET e == GetLocal(t) IN
         IF NeedsRefresh(e.conn, now, e.last)
         THEN /\ pc' = [pc EXCEPT ![t] = "gc_lock"]
              /\ loc' = [loc EXCEPT ![t].ct = now, ![t].entry = e,
                                    ![t].created = None]
              /\ res' = res
         ELSE /\ pc' = [pc EXCEPT ![t] = RetPc(t)]
              /\ loc' = [loc EXCEPT ![t].ct = now, ![t].entry = e,
                                    ![t].created = None, ![t].conn = e.conn]
              /\ res' = RetRes(t, e.conn)
    /\ UNCHANGED <<cfails, now, ticks, faults, lock, cache, conns, nextH, budget, used,
                   inflight, trace, sleeps>>

\* faulty variant: the replaced handle is left as it is
CloseOldSkipped(cs, h) == cs

\* lines 56-60: close the replaced handle when it still reports open
CloseOld(cs, h) ==
    IF h # None /\ cs[h].open THEN DriverClose(cs, h) ELSE cs

\* faulty variant: the creation path is entered whoever holds the lock
GC_LockUnguarded(t) ==
    /\ pc[t] = "gc_lock"
    /\ LET e == GetLocal(t) IN
         IF NeedsRefresh(e.conn, loc[t].ct, e.last)
         THEN /\ lock' = t
              /\ conns' = CloseOld(conns, e.conn)
              /\ used' = IF e.conn # None /\ conns[e.conn].open
                         THEN Use(used, e.conn, t) ELSE used
              /\ pc' = [pc EXCEPT ![t] = "gc_create"]
              /\ loc' = [loc EXCEPT ![t].cattempt = 0]
              /\ res' = res
         ELSE /\ pc' = [pc EXCEPT ![t] = RetPc(t)]
              /\ loc' = [loc EXCEPT ![t].conn = e.conn]
              /\ res' = RetRes(t, e.conn)
              /\ UNCHANGED <<lock, conns, used>>
    /\ UNCHANGED <<cfails, now, ticks, faults, cache, nextH, budget, inflight, trace,
                   sleeps>>

\* lines 46-60: take the lock, check again, close the old handle
GC_Lock(t) ==
    /\ pc[t] = "gc_lock"
    /\ lock = NoThread
    /\ LET e == GetLocal(t) IN
         IF NeedsRefresh(e.conn, loc[t].ct, e.last)
         THEN /\ lock' = t
              /\ conns' = CloseOld(conns, e.conn)
              /\ used' = IF e.conn # None /\ conns[e.conn].open
                         THEN Use(used, e.conn, t) ELSE used
              /\ pc' = [pc EXCEPT ![t] = "gc_create"]
              /\ loc' = [loc EXCEPT ![t].cattempt = 0]
              /\ res' = res
         ELSE /\ pc' = [pc EXCEPT ![t] = RetPc(t)]
              /\ loc' = [loc EXCEPT ![t].conn = e.conn]
              /\ res' = RetRes(t, e.conn)
              /\ UNCHANGED <<lock, conns, used>>
    /\ UNCHANGED <<cfails, now, ticks, faults, cache, nextH, budget, inflight, trace,
                   sleeps>>

\* faulty variant: the attempt before the last already gives up
LastAttemptEarly(attempt) == attempt = create_max_retries - 2

\* line 91, the else of `attempt < max_retries - 1`
LastAttempt(attempt) == attempt = create_max_retries - 1

\* faulty variant: a creation that fails leaves with the lock still held
GC_ConnectKeepsLock(t) ==
    /\ pc[t] = "gc_create"
    /\ lock = t
    /\ \/ /\ nextH <= MaxHandles
          /\ conns' = [conns EXCEPT ![nextH] =
                         [creator |-> t, open |-> TRUE, closed |-> FALSE]]
          /\ used' = Use(used, nextH, t)
          /\ nextH' = nextH + 1
          /\ cache' = SetLocal(cache, t, nextH, loc[t].ct)
          /\ lock' = NoThread
          /\ pc' = [pc EXCEPT ![t] = RetPc(t)]
          /\ loc' = [loc EXCEPT ![t].conn = nextH, ![t].created = nextH]
          /\ res' = RetRes(t, nextH)
          /\ UNCHANGED <<cfails, trace>>
       \/ /\ cfails < MaxConnFails
          /\ cfails' = cfails + 1
          /\ ~LastAttempt(loc[t].cattempt)
          /\ pc' = [pc EXCEPT ![t] = "gc_sleep"]
          /\ trace' = [trace EXCEPT ![t] = Append(@, "connect_failed")]
          /\ UNCHANGED <<conns, used, nextH, cache, lock, loc, res>>
       \/ /\ cfails < MaxConnFails
          /\ cfails' = cfails + 1
          /\ \E e \in {"ConnectionError", "KeyError"} :
               /\ e = "ConnectionError" => LastAttempt(loc[t].cattempt)
               /\ loc' = [loc EXCEPT ![t].exc = e]
               /\ res' = RaiseRes(t, e)
          /\ pc' = [pc EXCEPT ![t] = RaisePc(t)]
          /\ trace' = [trace EXCEPT ![t] = Append(@, "connect_failed")]
          /\ UNCHANGED <<conns, used, nextH, cache, lock>>
    /\ UNCHANGED <<faults, now, ticks, budget, inflight, sleeps>>

\* lines 62-64 with _create_connection, lines 71-95: one connect attempt
GC_Connect(t) ==
    /\ pc[t] = "gc_create"
    /\ lock = t
    /\ \/ \* pymysql.connect returns: cache the handle, leave the lock
          /\ nextH <= MaxHandles
          /\ conns' = [conns EXCEPT ![nextH] =
                         [creator |-> t, open |-> TRUE, closed |-> FALSE]]
          /\ used' = Use(used, nextH, t)
          /\ nextH' = nextH + 1
          /\ cache' = SetLocal(cache, t, nextH, loc[t].ct)
          /\ lock' = NoThread
          /\ pc' = [pc EXCEPT ![t] = RetPc(t)]
          /\ loc' = [loc EXCEPT ![t].conn = nextH, ![t].created = nextH]
          /\ res' = RetRes(t, nextH)
          /\ UNCHANGED <<cfails, trace>>
       \/ \* MySQLError, attempts left: back off
          /\ cfails < MaxConnFails
          /\ cfails' = cfails + 1
          /\ ~LastAttempt(loc[t].cattempt)
          /\ pc' = [pc EXCEPT ![t] = "gc_sleep"]
          /\ trace' = [trace EXCEPT ![t] = Append(@, "connect_failed")]
          /\ UNCHANGED <<conns, used, nextH, cache, lock, loc, res>>
       \/ \* MySQLError on the last attempt: ConnectionError
          /\ cfails < MaxConnFails
          /\ cfails' = cfails + 1
          /\ LastAttempt(loc[t].cattempt)
          /\ lock' = NoThread
          /\ pc' = [pc EXCEPT ![t] = RaisePc(t)]
          /\ loc' = [loc EXCEPT ![t].exc = "ConnectionError"]
          /\ res' = RaiseRes(t, "ConnectionError")
          /\ trace' = [trace EXCEPT ![t] = Append(@, "connect_failed")]
          /\ UNCHANGED <<conns, used, nextH, cache>>
       \/ \* an exception that is no MySQLError is not caught
          /\ cfails < MaxConnFails
          /\ cfails' = cfails + 1
          /\ lock' = NoThread
          /\ pc' = [pc EXCEPT ![t] = RaisePc(t)]
          /\ loc' = [loc EXCEPT ![t].exc = "KeyError"]
          /\ res' = RaiseRes(t, "KeyError")
          /\ trace' = [trace EXCEPT ![t] = Append(@, "connect_raised")]
          /\ UNCHANGED <<conns, used, nextH, cache>>
    /\ UNCHANGED <<faults, now, ticks, budget, inflight, sleeps>>

\* line 92: time.sleep(2**attempt), holding the lock
GC_Sleep(t) ==
    /\ pc[t] = "gc_sleep"
    /\ sleeps' = [sleeps EXCEPT ![t] = Append(@, 2 ^ loc[t].cattempt)]
    /\ loc' = [loc EXCEPT ![t].cattempt = @ + 1]
    /\ pc' = [pc EXCEPT ![t] = "gc_create"]
    /\ UNCHANGED <<cfails, now, ticks, faults, lock, cache, conns, nextH, budget, res,
                   used, inflight, trace>>

\* ----------------------------------------------------------- get_connection
\* lines 181-183
GetConnection(t) ==
    /\ Begin(t, "get_connection", "api", "gc_check")
    /\ UNCHANGED <<cfails, now, ticks, faults, lock, cache, conns, nextH, res, used,
                   inflight, trace, sleeps>>

\* -------------------------------------------------------- test_connection
\* lines 97-108: probe the cached handle when it reports open
TestConnection(t) ==
    /\ pc[t] = "idle"
    /\ budget > 0
    /\ LET h == GetLocal(t).conn IN
         IF h # None /\ conns[h].open
         THEN /\ used' = Use(used, h, t)
              /\ \/ \* the cursor opens, SELECT 1 is sent
                    /\ pc' = [pc EXCEPT ![t] = "probe"]
                    /\ loc' = [loc EXCEPT ![t] =
                         [InitLoc EXCEPT !.op = "test_connection", !.conn = h,
                            !.q = [h |-> h, open |-> conns[h].open,
                                   stale |-> now - GetLocal(t).last
                                               > max_connection_age]]]
                    /\ inflight' = inflight \cup {<<t, h>>}
                    /\ UNCHANGED <<faults, res>>
                 \/ \* connection.cursor() raises: False
                    /\ faults < MaxFaults
                    /\ faults' = faults + 1
                    /\ pc' = [pc EXCEPT ![t] = "done"]
                    /\ loc' = [loc EXCEPT ![t] =
                         [InitLoc EXCEPT !.op = "test_connection"]]
                    /\ res' = [res EXCEPT ![t] = Result("return", NoExc, FALSE)]
                    /\ UNCHANGED inflight
         ELSE /\ pc' = [pc EXCEPT ![t] = "done"]
              /\ loc' = [loc EXCEPT ![t] =
                   [InitLoc EXCEPT !.op = "test_connection"]]
              /\ res' = [res EXCEPT ![t] = Result("return", NoExc, FALSE)]
              /\ UNCHANGED <<faults, used, inflight>>
    /\ budget' = budget - 1
    /\ UNCHANGED <<cfails, now, ticks, lock, cache, conns, nextH, trace, sleeps>>

\* faulty variant: the probe's error is not looked at
ProbeEndAlwaysTrue(t) ==
    /\ pc[t] = "probe"
    /\ inflight' = inflight \ {<<t, loc[t].conn>>}
    /\ \E e \in Outcomes(conns, loc[t].conn) :
         /\ conns' = AfterError(conns, loc[t].conn, e)
         /\ faults' = faults + Cost(conns, loc[t].conn, e)
         /\ res' = [res EXCEPT ![t] = Result("return", NoExc, TRUE)]
    /\ pc' = [pc EXCEPT ![t] = "done"]
    /\ UNCHANGED <<cfails, now, ticks, lock, cache, nextH, loc, budget, used, trace,
                   sleeps>>

\* lines 103-108: the probe answers (True) or fails (False)
ProbeEnd(t) ==
    /\ pc[t] = "probe"
    /\ inflight' = inflight \ {<<t, loc[t].conn>>}
    /\ \E e \in Outcomes(conns, loc[t].conn) :
         /\ conns' = AfterError(conns, loc[t].conn, e)
         /\ faults' = faults + Cost(conns, loc[t].conn, e)
         /\ res' = [res EXCEPT ![t] = Result("return", NoExc, e = NoExc)]
    /\ pc' = [pc EXCEPT ![t] = "done"]
    /\ UNCHANGED <<cfails, now, ticks, lock, cache, nextH, loc, budget, used, trace,
                   sleeps>>

\* ---------------------------------------------------- invalidate_connection
\* lines 185-187: _invalidate_connection(self._get_local_connection())
InvalidateConnection(t) ==
    /\ Begin(t, "invalidate_connection", "-", "done")
    /\ LET h == GetLocal(t).conn IN
         /\ conns' = InvalidateConns(conns, h)
         /\ cache' = InvalidateCache(cache, t, h)
         /\ used' = InvalidateUsed(used, t, h)
    /\ res' = [res EXCEPT ![t] = Result("return", NoExc, None)]
    /\ UNCHANGED <<cfails, now, ticks, faults, lock, nextH, inflight, trace, sleeps>>

\* lines 110-121 called with a handle of the caller's choice, or with none:
\* _invalidate_connection(h); the frame keeps h and the slot as it was
InvalidateGiven(t, h) ==
    /\ pc[t] = "idle"
    /\ budget > 0
    /\ budget' = budget - 1
    /\ h = None \/ h < nextH
    /\ pc' = [pc EXCEPT ![t] = "done"]
    /\ loc' = [loc EXCEPT ![t] =
                 [InitLoc EXCEPT !.op = "_invalidate_connection", !.conn = h,
                                 !.entry = GetLocal(t)]]
    /\ conns' = InvalidateConns(conns, h)
    /\ cache' = InvalidateCache(cache, t, h)
    /\ used' = InvalidateUsed(used, t, h)
    /\ res' = [res EXCEPT ![t] = Result("return", NoExc, None)]
    /\ UNCHANGED <<cfails, now, ticks, faults, lock, nextH, inflight, trace, sleeps>>

\* --------------------------------------------------------------------- close
\* lines 170-179: close the cached handle; the slot is cleared in a finally
Close(t) ==
    /\ Begin(t, "close", "-", "done")
    /\ LET h == GetLocal(t).conn IN
         IF h # None
         THEN /\ conns' = IF CloseOk(conns, h) THEN DriverClose(conns, h)
                          ELSE conns
              /\ cache' = SetLocal(cache, t, None, 0)
              /\ used' = Use(used, h, t)
              /\ res' = [res EXCEPT ![t] =
                           IF CloseOk(conns, h)
                           THEN Result("return", NoExc, None)
                           ELSE Result("raise", "AlreadyClosed", None)]
         ELSE /\ res' = [res EXCEPT ![t] = Result("return", NoExc, None)]
              /\ UNCHANGED <<conns, cache, used>>
    /\ UNCHANGED <<cfails, now, ticks, faults, lock, nextH, inflight, trace, sleeps>>

\* ---------------------------------------------------------------- get_cursor
\* lines 124-131
GetCursor(t) ==
    /\ Begin(t, "get_cursor", "cursor", "gc_check")
    /\ UNCHANGED <<cfails, now, ticks, faults, lock, cache, conns, nextH, res, used,
                   inflight, trace, sleeps>>

\* lines 133-135: connection.cursor() opens the cursor; break, yield
CursorOpen(t) ==
    /\ pc[t] = "cur_open"
    /\ used' = Use(used, loc[t].conn, t)
    /\ pc' = [pc EXCEPT ![t] = "body"]
    /\ loc' = [loc EXCEPT ![t].cur = "open", ![t].body = "running"]
    /\ trace' = [trace EXCEPT ![t] = Append(@, "yield")]
    /\ UNCHANGED <<cfails, now, ticks, faults, lock, cache, conns, nextH, budget, res,
                   inflight, sleeps>>

\* faulty variant: the failed attempt leaves the connection as it is
AcquireFailedKeepsConn(t, e) ==
    /\ UNCHANGED <<conns, cache, used>>
    /\ trace' = [trace EXCEPT ![t] = Append(@, "acquire_failed")]
    /\ loc' = [loc EXCEPT ![t].conn = None, ![t].cur = "none", ![t].exc = e]
    /\ IF loc[t].attempt = cursor_max_retries - 1
       THEN /\ pc' = [pc EXCEPT ![t] = "done"]
            /\ res' = [res EXCEPT ![t] = Result("raise", e, None)]
       ELSE /\ pc' = [pc EXCEPT ![t] = "cur_sleep"]
            /\ res' = res

\* lines 136-144: the attempt failed with e; invalidate the attempted
\* connection (None when _get_connection raised), give up or pause
AcquireFailed(t, e) ==
    /\ conns' = InvalidateConns(conns, loc[t].conn)
    /\ cache' = InvalidateCache(cache, t, loc[t].conn)
    /\ used' = InvalidateUsed(used, t, loc[t].conn)
    /\ trace' = [trace EXCEPT ![t] = @ \o <<"acquire_failed", "invalidate">>]
    /\ loc' = [loc EXCEPT ![t].conn = None, ![t].cur = "none", ![t].exc = e]
    /\ IF loc[t].attempt = cursor_max_retries - 1
       THEN /\ pc' = [pc EXCEPT ![t] = "done"]
            /\ res' = [res EXCEPT ![t] = Result("raise", e, None)]
       ELSE /\ pc' = [pc EXCEPT ![t] = "cur_sleep"]
            /\ res' = res

\* connection.cursor() raises
CursorOpenFailed(t) ==
    /\ pc[t] = "cur_open"
    /\ faults < MaxFaults
    /\ faults' = faults + 1
    /\ AcquireFailed(t, "CursorError")
    /\ UNCHANGED <<cfails, now, ticks, lock, nextH, budget, inflight, sleeps>>

\* _get_connection raised
CursorConnFailed(t) ==
    /\ pc[t] = "cur_fail"
    /\ AcquireFailed(t, loc[t].exc)
    /\ UNCHANGED <<cfails, now, ticks, faults, lock, nextH, budget, inflight, sleeps>>

\* line 144: time.sleep(1), next attempt
CursorSleep(t) ==
    /\ pc[t] = "cur_sleep"
    /\ sleeps' = [sleeps EXCEPT ![t] = Append(@, 1)]
    /\ loc' = [loc EXCEPT ![t].attempt = @ + 1]
    /\ pc' = [pc EXCEPT ![t] = "gc_check"]
    /\ UNCHANGED <<cfails, now, ticks, faults, lock, cache, conns, nextH, budget, res,
                   used, inflight, trace>>

\* the body of the with block: cursor.execute(...) starts
BodyStmtBegin(t) ==
    /\ pc[t] = "body"
    /\ loc[t].stmts < MaxStmts
    /\ pc' = [pc EXCEPT ![t] = "stmt"]
    /\ loc' = [loc EXCEPT ![t].stmts = @ + 1]
    /\ used' = Use(used, loc[t].conn, t)
    /\ inflight' = inflight \cup {<<t, loc[t].conn>>}
    /\ trace' = [trace EXCEPT ![t] = Append(@, "stmt")]
    /\ UNCHANGED <<cfails, now, ticks, faults, lock, cache, conns, nextH, budget, res,
                   sleeps>>

\* faulty variant: a statement that failed is sent once more
BodyStmtEndRetries(t) ==
    /\ pc[t] = "stmt"
    /\ \E e \in Outcomes(conns, loc[t].conn) :
         /\ conns' = AfterError(conns, loc[t].conn, e)
         /\ faults' = faults + Cost(conns, loc[t].conn, e)
         /\ IF e = NoExc
            THEN /\ pc' = [pc EXCEPT ![t] = "body"]
                 /\ inflight' = inflight \ {<<t, loc[t].conn>>}
                 /\ trace' = trace
            ELSE /\ faults < MaxFaults
                 /\ pc' = pc
                 /\ inflight' = inflight
                 /\ trace' = [trace EXCEPT ![t] = @ \o <<"error", "stmt">>]
    /\ UNCHANGED <<cfails, now, ticks, lock, cache, nextH, loc, budget, res, used,
                   sleeps>>

\* the statement ends: rows, or an error that the body lets through
BodyStmtEnd(t) ==
    /\ pc[t] = "stmt"
    /\ inflight' = inflight \ {<<t, loc[t].conn>>}
    /\ \E e \in Outcomes(conns, loc[t].conn) :
         /\ conns' = AfterError(conns, loc[t].conn, e)
         /\ faults' = faults + Cost(conns, loc[t].conn, e)
         /\ IF e = NoExc
            THEN /\ pc' = [pc EXCEPT ![t] = "body"]
                 /\ loc' = loc
                 /\ trace' = trace
            ELSE /\ pc' = [pc EXCEPT ![t] = "scope_exc"]
                 /\ loc' = [loc EXCEPT ![t].exc = e, ![t].body = "raised",
                                       ![t].bexc = e]
                 /\ trace' = [trace EXCEPT ![t] = Append(@, "error")]
    /\ UNCHANGED <<cfails, now, ticks, lock, cache, nextH, budget, res, used, sleeps>>

\* the body raises an error of its own
BodyRaise(t) ==
    /\ pc[t] = "body"
    /\ faults < MaxFaults
    /\ faults' = faults + 1
    /\ \E e \in BodyErrors :
         loc' = [loc EXCEPT ![t].exc = e, ![t].body = "raised", ![t].bexc = e]
    /\ pc' = [pc EXCEPT ![t] = "scope_exc"]
    /\ trace' = [trace EXCEPT ![t] = Append(@, "error")]
    /\ UNCHANGED <<cfails, now, ticks, lock, cache, conns, nextH, budget, res, used,
                   inflight, sleeps>>

\* the body calls invalidate_connection() on the manager (lines 185-187)
BodyInvalidate(t) ==
    /\ pc[t] = "body"
    /\ loc[t].stmts < MaxStmts
    /\ loc' = [loc EXCEPT ![t].stmts = @ + 1]
    /\ LET h == GetLocal(t).conn IN
         /\ conns' = InvalidateConns(conns, h)
         /\ cache' = InvalidateCache(cache, t, h)
         /\ used' = InvalidateUsed(used, t, h)
    /\ UNCHANGED <<cfails, now, ticks, faults, lock, nextH, pc, budget, res, inflight,
                   trace, sleeps>>

\* faulty variant: the scope ends without the commit
ScopeCommitSkipped(t) ==
    /\ pc[t] = "body"
    /\ pc' = [pc EXCEPT ![t] = "scope_finally"]
    /\ loc' = [loc EXCEPT ![t].body = "ok"]
    /\ UNCHANGED <<cfails, now, ticks, faults, lock, cache, conns, nextH, budget, res,
                   used, inflight, trace, sleeps>>

\* lines 150-151: the body ends normally, connection.commit()
ScopeCommit(t) ==
    /\ pc[t] = "body"
    /\ used' = Use(used, loc[t].conn, t)
    /\ \E e \in Outcomes(conns, loc[t].conn) :
         /\ conns' = AfterError(conns, loc[t].conn, e)
         /\ faults' = faults + Cost(conns, loc[t].conn, e)
         /\ pc' = [pc EXCEPT ![t] =
                     IF e = NoExc THEN "scope_finally" ELSE "scope_exc"]
         /\ loc' = [loc EXCEPT ![t].body = "ok", ![t].exc = e]
         /\ trace' = [trace EXCEPT ![t] =
                        IF e = NoExc THEN Append(@, "commit")
                        ELSE @ \o <<"commit", "error">>]
    /\ UNCHANGED <<cfails, now, ticks, lock, cache, nextH, budget, res, inflight, sleeps>>

\* faulty variant: the error of a failed rollback replaces the body's error
ScopeExceptRollbackRaises(t) ==
    /\ pc[t] = "scope_exc"
    /\ used' = Use(used, loc[t].conn, t)
    /\ \E r \in Outcomes(conns, loc[t].conn) :
         /\ faults' = faults + Cost(conns, loc[t].conn, r)
         /\ conns' = AfterError(conns, loc[t].conn, r)
         /\ loc' = [loc EXCEPT ![t].exc = IF r = NoExc THEN @ ELSE r]
         /\ trace' = [trace EXCEPT ![t] =
                        @ \o (IF r = NoExc THEN <<"rollback">>
                              ELSE <<"rollback", "rollback_failed">>)]
    /\ cache' = cache
    /\ pc' = [pc EXCEPT ![t] = "scope_finally"]
    /\ UNCHANGED <<cfails, now, ticks, lock, nextH, budget, res, inflight,
                   sleeps>>

\* faulty variant: the connection is invalidated first, then rolled back
ScopeExceptInvalidateFirst(t) ==
    /\ pc[t] = "scope_exc"
    /\ used' = Use(used, loc[t].conn, t)
    /\ LET cs == IF ConnFault(loc[t].exc)
                 THEN InvalidateConns(conns, loc[t].conn) ELSE conns IN
         \E r \in Outcomes(cs, loc[t].conn) :
             /\ faults' = faults + Cost(cs, loc[t].conn, r)
             /\ conns' = AfterError(cs, loc[t].conn, r)
             /\ trace' = [trace EXCEPT ![t] =
                            @ \o (IF ConnFault(loc[t].exc) THEN <<"invalidate">>
                                  ELSE <<>>)
                              \o (IF r = NoExc THEN <<"rollback">>
                                  ELSE <<"rollback", "rollback_failed">>)]
    /\ cache' = IF ConnFault(loc[t].exc)
                THEN InvalidateCache(cache, t, loc[t].conn)
                ELSE cache
    /\ pc' = [pc EXCEPT ![t] = "scope_finally"]
    /\ UNCHANGED <<cfails, now, ticks, lock, nextH, loc, budget, res, inflight,
                   sleeps>>

\* lines 152-162: rollback (its error swallowed), invalidate when the text
\* of the error says connection fault, raise the error again
ScopeExcept(t) ==
    /\ pc[t] = "scope_exc"
    /\ used' = Use(used, loc[t].conn, t)
    /\ \E r \in Outcomes(conns, loc[t].conn) :
         /\ faults' = faults + Cost(conns, loc[t].conn, r)
         /\ conns' = IF ConnFault(loc[t].exc)
                     THEN InvalidateConns(AfterError(conns, loc[t].conn, r),
                                          loc[t].conn)
                     ELSE AfterError(conns, loc[t].conn, r)
         /\ trace' = [trace EXCEPT ![t] =
                        @ \o (IF r = NoExc THEN <<"rollback">>
                              ELSE <<"rollback", "rollback_failed">>)
                          \o (IF ConnFault(loc[t].exc) THEN <<"invalidate">>
                              ELSE <<>>)]
    /\ cache' = IF ConnFault(loc[t].exc)
                THEN InvalidateCache(cache, t, loc[t].conn)
                ELSE cache
    /\ pc' = [pc EXCEPT ![t] = "scope_finally"]
    /\ UNCHANGED <<cfails, now, ticks, lock, nextH, loc, budget, res, inflight,
                   sleeps>>

\* faulty variant: an error of cursor.close() replaces the scope's outcome
ScopeFinallyCloseRaises(t) ==
    /\ pc[t] = "scope_finally"
    /\ used' = Use(used, loc[t].conn, t)
    /\ loc' = [loc EXCEPT ![t].cur = "closed"]
    /\ \/ /\ trace' = [trace EXCEPT ![t] =
                         IF loc[t].exc = NoExc THEN Append(@, "cursor_close")
                         ELSE @ \o <<"cursor_close", "raise">>]
          /\ res' = [res EXCEPT ![t] =
                       IF loc[t].exc = NoExc
                       THEN Result("return", NoExc, None)
                       ELSE Result("raise", loc[t].exc, None)]
          /\ faults' = faults
       \/ /\ faults < MaxFaults
          /\ faults' = faults + 1
          /\ trace' = [trace EXCEPT ![t] =
                         @ \o <<"cursor_close", "cursor_close_failed", "raise">>]
          /\ res' = [res EXCEPT ![t] = Result("raise", "CursorError", None)]
    /\ pc' = [pc EXCEPT ![t] = "done"]
    /\ UNCHANGED <<cfails, now, ticks, lock, cache, conns, nextH, budget,
                   inflight, sleeps>>

\* lines 163-168: cursor.close(), which returns or raises, its error
\* swallowed; the scope ends with the outcome it had
ScopeFinally(t) ==
    /\ pc[t] = "scope_finally"
    /\ used' = Use(used, loc[t].conn, t)
    /\ loc' = [loc EXCEPT ![t].cur = "closed"]
    /\ \E closed \in IF faults < MaxFaults THEN {"ok", "failed"} ELSE {"ok"} :
         /\ faults' = IF closed = "failed" THEN faults + 1 ELSE faults
         /\ trace' = [trace EXCEPT ![t] =
                        @ \o <<"cursor_close">>
                          \o (IF closed = "failed"
                              THEN <<"cursor_close_failed">> ELSE <<>>)
                          \o (IF loc[t].exc = NoExc THEN <<>>
                              ELSE <<"raise">>)]
    /\ res' = [res EXCEPT ![t] =
                 IF loc[t].exc = NoExc
                 THEN Result("return", NoExc, None)
                 ELSE Result("raise", loc[t].exc, None)]
    /\ pc' = [pc EXCEPT ![t] = "done"]
    /\ UNCHANGED <<cfails, now, ticks, lock, cache, conns, nextH, budget,
                   inflight, sleeps>>

\* ------------------------------------------------ execute_query_with_timeout
\* the pool thread of the operation the caller t starts now
WorkerOf(t) == <<t[1], budget>>

\* lines 232-235: a new executor, submit(query_worker), future.result(timeout)
ExecStart(t) ==
    /\ pc[t] = "idle"
    /\ budget > 0
    /\ budget' = budget - 1
    /\ pc' = [pc EXCEPT ![t] = "wait_result", ![WorkerOf(t)] = "w_pending"]
    /\ loc' = [loc EXCEPT
                 ![t] = [InitLoc EXCEPT !.op = "execute_query_with_timeout",
                                        !.worker = WorkerOf(t)],
                 ![WorkerOf(t)] = [InitLoc EXCEPT !.op = "query_worker",
                                                  !.ret = "worker"]]
    /\ UNCHANGED <<cfails, now, ticks, faults, lock, cache, conns, nextH, res, used,
                   inflight, trace, sleeps>>

\* the pool thread takes the work item: line 216, get_connection()
WorkerStart(w) ==
    /\ pc[w] = "w_pending"
    /\ pc' = [pc EXCEPT ![w] = "gc_check"]
    /\ UNCHANGED <<cfails, now, ticks, faults, lock, cache, conns, nextH, loc, budget,
                   res, used, inflight, trace, sleeps>>

\* lines 217-222: the cursor opens, cursor.execute(sql) is sent
WorkerExecBegin(w) ==
    /\ pc[w] = "w_cursor"
    /\ pc' = [pc EXCEPT ![w] = "w_run"]
    /\ loc' = [loc EXCEPT ![w].cur = "open",
                 ![w].q = [h |-> loc[w].conn, open |-> conns[loc[w].conn].open,
                           stale |-> now - GetLocal(w).last > max_connection_age]]
    /\ used' = Use(used, loc[w].conn, w)
    /\ inflight' = inflight \cup {<<w, loc[w].conn>>}
    /\ trace' = [trace EXCEPT ![w] = Append(@, "stmt")]
    /\ UNCHANGED <<cfails, now, ticks, faults, lock, cache, conns, nextH, budget, res,
                   sleeps>>

\* line 217: connection.cursor(DictCursor) raises, before the try block
WorkerCursorFailed(w) ==
    /\ pc[w] = "w_cursor"
    /\ faults < MaxFaults
    /\ faults' = faults + 1
    /\ pc' = [pc EXCEPT ![w] = "w_done"]
    /\ loc' = [loc EXCEPT ![w].exc = "CursorError"]
    /\ res' = [res EXCEPT ![w] = Result("raise", "CursorError", None)]
    /\ used' = Use(used, loc[w].conn, w)
    /\ UNCHANGED <<cfails, now, ticks, lock, cache, conns, nextH, budget, inflight,
                   trace, sleeps>>

\* faulty variant: the worker clears the slot of the thread that waits for it
WorkerExecEndClearsCaller(w) ==
    /\ pc[w] = "w_run"
    /\ inflight' = inflight \ {<<w, loc[w].conn>>}
    /\ \E e \in Outcomes(conns, loc[w].conn) :
         /\ faults' = faults + Cost(conns, loc[w].conn, e)
         /\ conns' = InvalidateConns(AfterError(conns, loc[w].conn, e),
                                     loc[w].conn)
         /\ res' = [res EXCEPT ![w] =
                      IF e = NoExc THEN Result("return", NoExc, None)
                      ELSE Result("raise", e, None)]
         /\ loc' = [loc EXCEPT ![w].exc = e, ![w].cur = "closed"]
    /\ \E t \in Callers :
         /\ loc[t].worker = w
         /\ cache' = SetLocal(InvalidateCache(cache, w, loc[w].conn), t, None, 0)
    /\ trace' = [trace EXCEPT ![w] = @ \o <<"cursor_close", "invalidate">>]
    /\ pc' = [pc EXCEPT ![w] = "w_done"]
    /\ UNCHANGED <<cfails, now, ticks, lock, nextH, budget, used, sleeps>>

\* lines 223-230: fetchall() or the error; finally cursor.close() and
\* _invalidate_connection(connection)
WorkerExecEnd(w) ==
    /\ pc[w] = "w_run"
    /\ inflight' = inflight \ {<<w, loc[w].conn>>}
    /\ \E e \in Outcomes(conns, loc[w].conn) :
         /\ faults' = faults + Cost(conns, loc[w].conn, e)
         /\ conns' = InvalidateConns(AfterError(conns, loc[w].conn, e),
                                     loc[w].conn)
         /\ res' = [res EXCEPT ![w] =
                      IF e = NoExc THEN Result("return", NoExc, None)
                      ELSE Result("raise", e, None)]
         /\ loc' = [loc EXCEPT ![w].exc = e, ![w].cur = "closed"]
    /\ cache' = InvalidateCache(cache, w, loc[w].conn)
    /\ trace' = [trace EXCEPT ![w] = @ \o <<"cursor_close", "invalidate">>]
    /\ pc' = [pc EXCEPT ![w] = "w_done"]
    /\ UNCHANGED <<cfails, now, ticks, lock, nextH, budget, used, sleeps>>

\* line 235: the worker is done in time; future.result returns its rows or
\* raises its error; the with block joins the finished worker
ExecResult(t) ==
    /\ pc[t] = "wait_result"
    /\ pc[loc[t].worker] = "w_done"
    /\ res' = [res EXCEPT ![t] = res[loc[t].worker], ![loc[t].worker] = NoRes]
    /\ pc' = [pc EXCEPT ![t] = "done", ![loc[t].worker] = "dead"]
    /\ loc' = [loc EXCEPT ![loc[t].worker] = InitLoc]
    /\ trace' = [trace EXCEPT ![loc[t].worker] = <<>>]
    /\ sleeps' = [sleeps EXCEPT ![loc[t].worker] = <<>>]
    /\ UNCHANGED <<cfails, now, ticks, faults, lock, cache, conns, nextH, budget, used,
                   inflight>>

\* lines 236-238: the wait times out; future.cancel() stops only a work
\* item that has not started; QueryTimeoutError is raised inside the with
ExecTimeout(t) ==
    /\ pc[t] = "wait_result"
    /\ pc[loc[t].worker] # "w_done"
    /\ pc' = [pc EXCEPT ![t] = "executor_exit",
                        ![loc[t].worker] =
                            IF @ = "w_pending" THEN "dead" ELSE @]
    /\ loc' = [loc EXCEPT ![t].exc = "QueryTimeoutError"]
    /\ UNCHANGED <<cfails, now, ticks, faults, lock, cache, conns, nextH, budget, res,
                   used, inflight, trace, sleeps>>

\* line 232, leaving the with block: ThreadPoolExecutor.__exit__ is
\* shutdown(wait=True), which joins the worker thread
\* the join returns once the worker thread has ended
WorkerEnded(t) == pc[loc[t].worker] \in {"w_done", "dead"}

ExecExit(t) ==
    /\ pc[t] = "executor_exit"
    /\ WorkerEnded(t)
    /\ res' = [res EXCEPT ![t] = Result("raise", loc[t].exc, None),
                          ![loc[t].worker] = NoRes]
    /\ pc' = [pc EXCEPT ![t] = "done", ![loc[t].worker] = "dead"]
    /\ loc' = [loc EXCEPT ![loc[t].worker] = InitLoc]
    /\ trace' = [trace EXCEPT ![loc[t].worker] = <<>>]
    /\ sleeps' = [sleeps EXCEPT ![loc[t].worker] = <<>>]
    /\ UNCHANGED <<cfails, now, ticks, faults, lock, cache, conns, nextH, budget, used,
                   inflight>>

\* --------------------------------------------------------- limit_result_size
\* a row is a dict, written as its items <<column, value>> in order
RowPool == { << <<"id", 7>> >>,
             << <<"id", 42>> >>,
             << <<"id", 7>>, <<"n", -15>> >> }

RECURSIVE Digits(_)
Digits(n) == IF n < 10 THEN 1 ELSE 1 + Digits(n \div 10)

\* len(repr(v)) of an int
IntLen(v) == IF v < 0 THEN 1 + Digits(-v) ELSE Digits(v)

\* len(repr(k)) of a str: the text and its two quotes
KeyLen(k) == Len(k) + 2

\* the items of a dict: repr(k) ": " repr(v), joined by ", "
RECURSIVE ItemsLen(_)
ItemsLen(row) ==
    IF row = <<>> THEN 0
    ELSE KeyLen(row[1][1]) + 2 + IntLen(row[1][2])
         + (IF Len(row) > 1 THEN 2 ELSE 0) + ItemsLen(Tail(row))

\* line 251: len(str(row)), the braces around the items
RowStrLen(row) == 2 + ItemsLen(row)

\* the rows of a list, joined by ", "
RECURSIVE RowsLen(_)
RowsLen(rows) ==
    IF rows = <<>> THEN 0
    ELSE RowStrLen(Head(rows)) + (IF Len(rows) > 1 THEN 2 ELSE 0)
         + RowsLen(Tail(rows))

\* line 246: len(str(result)), the brackets around the rows
ListStrLen(rows) == 2 + RowsLen(rows)

\* faulty variant: the loop stops already when the budget is met exactly
RECURSIVE WalkStrict(_, _, _, _)
WalkStrict(result, i, current_chars, max_chars) ==
    IF i > Len(result) THEN <<>>
    ELSE IF current_chars + RowStrLen(result[i]) >= max_chars THEN <<>>
    ELSE <<result[i]>> \o WalkStrict(result, i + 1,
                              current_chars + RowStrLen(result[i]), max_chars)

\* lines 248-255: the rows kept from row i on, current_chars counted so far
RECURSIVE Walk(_, _, _, _)
Walk(result, i, current_chars, max_chars) ==
    IF i > Len(result) THEN <<>>
    ELSE IF current_chars + RowStrLen(result[i]) > max_chars THEN <<>>
    ELSE <<result[i]>> \o Walk(result, i + 1,
                               current_chars + RowStrLen(result[i]), max_chars)

\* faulty variant: the loop runs for every result and charges each row
\* its separator as well, starting from the two brackets
RECURSIVE WalkCharged(_, _, _, _)
WalkCharged(result, i, current_chars, max_chars) ==
    IF i > Len(result) THEN <<>>
    ELSE IF current_chars + RowStrLen(result[i]) + 2 > max_chars THEN <<>>
    ELSE <<result[i]>> \o WalkCharged(result, i + 1,
                              current_chars + RowStrLen(result[i]) + 2,
                              max_chars)

limit_result_sizeCharged(result, max_chars) ==
    WalkCharged(result, 1, 2, max_chars)

\* lines 241-262
limit_result_size(result, max_chars) ==
    IF result = <<>> THEN result
    ELSE IF ListStrLen(result) > max_chars
         THEN Walk(result, 1, 0, max_chars)
         ELSE result

ResultSets == UNION {[1..n -> RowPool] : n \in 0..MaxRows}
Budgets == ListStrLen(<<>>)..MaxChars

\* a caller is about to bound a result set
BounderInit ==
    /\ MgrInit
    /\ budget = 0
    /\ tool = NoTool
    /\ gm = GmInit
    /\ rl = NoLimiter
    /\ kg = NoSearch
    /\ bnd \in [pc : {"call"}, result : ResultSets, max_chars : Budgets,
                out : {<<>>}]

LimitResultSize ==
    /\ bnd.pc = "call"
    /\ bnd' = [bnd EXCEPT !.pc = "ret",
                          !.out = limit_result_size(bnd.result, bnd.max_chars)]
    /\ UNCHANGED <<now, ticks, faults, cfails, lock, cache, conns, nextH, pc,
                   loc, budget, res, used, inflight, trace, sleeps, tool, gm, rl,
                   kg>>

\* ------------------------------------------------------------------ tools.py
\* statements and timeouts the tool is called with
Statements == {"SELECT 1", "SELECT timeout FROM t", "DROP TABLE t"}
Timeouts == {0, 60}
TableNames == {"users", "users; --"}

\* MySQLSecurityChecker.validate_sql: read-only statements pass
ValidateSql(sql) == sql \in {"SELECT 1", "SELECT timeout FROM t"}

\* MySQLSecurityChecker.validate_table_name: plain identifiers pass
ValidateTableName(table_name) == table_name = "users"

\* lines 28-36: the settings read from the environment; a setting is
\* missing when its variable is unset or empty
ConfigFields == {"host", "user", "password", "database", "port"}
MissingSets == {{}} \cup {{f} : f \in ConfigFields}

\* line 38
required_keys == {"host", "user", "password", "database"}

\* lines 39-43: every required key has a value; a missing MYSQL_PORT is
\* replaced by 3306 on line 33
ConfigComplete(missing) == missing \cap required_keys = {}

\* a thread calls get_connection_manager()
GM_Call(t) ==
    /\ gm.pc[t] = "idle"
    /\ gm.calls[t] < MaxGmCalls
    /\ gm' = [gm EXCEPT !.pc[t] = "check", !.calls[t] = @ + 1,
                        !.inst[t] = None, !.got[t] = None, !.exc[t] = NoExc]

\* line 24: if _connection_manager is None
GM_Check(t) ==
    /\ gm.pc[t] = "check"
    /\ gm' = [gm EXCEPT !.pc[t] = IF gm.global = None THEN "build" ELSE "ret"]

\* lines 25-45, right-hand side: read the settings, raise when a required
\* one is missing, else construct MySQLConnectionManager(mysql_config)
GM_Build(t, missing) ==
    /\ gm.pc[t] = "build"
    /\ gm' = IF ConfigComplete(missing)
             THEN [gm EXCEPT !.pc[t] = "store", !.made = @ + 1,
                             !.inst[t] = gm.made + 1]
             ELSE [gm EXCEPT !.pc[t] = "done",
                             !.exc[t] = "MySQLConnectionError"]

\* line 45, the assignment to the global
GM_Store(t) ==
    /\ gm.pc[t] = "store"
    /\ gm' = [gm EXCEPT !.pc[t] = "ret", !.global = gm.inst[t]]

\* line 46: return _connection_manager
GM_Return(t) ==
    /\ gm.pc[t] = "ret"
    /\ gm' = [gm EXCEPT !.pc[t] = "done", !.got[t] = gm.global]

\* the caller has the instance, or the error
GM_Finish(t) ==
    /\ gm.pc[t] = "done"
    /\ gm' = [gm EXCEPT !.pc[t] = "idle"]

\* MySQLSecurityChecker.validate_timeout: within [1, 600] seconds
ValidateTimeout(timeout) == timeout >= 1 /\ timeout <= 600

\* faulty variant: the manager is fetched before the statement is looked at
QueryPlanManagerFirst(sql, timeout, has_manager, cfg_ok) ==
    IF ~has_manager /\ ~cfg_ok THEN "config_error"
    ELSE "exec"

\* lines 220-231: what mysql_query does with its arguments; cfg_ok says
\* whether get_connection_manager (lines 21-46) finds its settings
QueryPlan(sql, timeout, has_manager, cfg_ok) ==
    IF ~ValidateSql(sql) THEN "rejected"
    ELSE IF ~ValidateTimeout(timeout) THEN "bad_timeout"
    ELSE IF ~has_manager /\ ~cfg_ok THEN "config_error"
    ELSE "exec"

\* a tool returns its text without having reached the manager
ToolReturnsEarly(t, op, plan, sql, missing) ==
    /\ budget' = budget - 1
    /\ pc' = [pc EXCEPT ![t] = "done"]
    /\ loc' = [loc EXCEPT ![t] = [InitLoc EXCEPT !.op = op]]
    /\ res' = [res EXCEPT ![t] = Result("return", NoExc, None)]
    /\ tool' = [tool EXCEPT
                  !.stage = "ret", !.sql = sql,
                  !.missing = IF plan = "config_error" THEN missing ELSE {},
                  !.text = IF plan = "config_error" THEN "failure" ELSE plan,
                  !.exc = IF plan = "config_error"
                          THEN "MySQLConnectionError" ELSE NoExc]
    /\ UNCHANGED <<cfails, now, ticks, faults, lock, cache, conns, nextH, used,
                   inflight, trace, sleeps>>

\* lines 220-231: validate, get the manager, start the bounded executor
MysqlQuery(t, sql, timeout, missing) ==
    /\ pc[t] = "idle"
    /\ budget > 0
    /\ tool.stage = "-"
    /\ LET plan == QueryPlan(sql, timeout, tool.manager,
                             ConfigComplete(missing))
       IN IF plan = "exec"
          THEN /\ ExecStart(t)
               /\ tool' = [tool EXCEPT
                             !.manager = TRUE, !.stage = "exec", !.sql = sql,
                             !.missing = IF tool.manager THEN {} ELSE missing]
          ELSE ToolReturnsEarly(t, "mysql_query", plan, sql, missing)

\* faulty variant: no failure of the executor invalidates
ShouldInvalidateNever(e) == FALSE

\* lines 232-237: QueryTimeoutError is re-raised as it is, any other
\* exception after conn_manager.invalidate_connection()
ShouldInvalidate(e) == e # "QueryTimeoutError"

\* str(e) of an error of the statement sql, piece by piece: the server
\* names the column it does not know
QueryErrorText(e, sql) ==
    IF e = "ProgrammingError" /\ sql = "SELECT timeout FROM t"
    THEN <<"(1054,", "Unknown", "column", "'", "timeout", "'", "in",
           "field", "list)">>
    ELSE ExcText(e)

\* line 291: "timeout" in str(e).lower()
TimeoutText(e, sql) ==
    \E i \in DOMAIN QueryErrorText(e, sql) :
        Lower(QueryErrorText(e, sql)[i]) = "timeout"

\* line 243
query_max_chars == 10000

\* a text of 2^k characters
RECURSIVE Pad(_)
Pad(k) == IF k = 0 THEN "x" ELSE Pad(k - 1) \o Pad(k - 1)

\* rows the executor hands to mysql_query: a short one, one whose text
\* is 8199 characters long and one whose text is 16391 characters long
SmallRow == << <<"id", 7>> >>
WideRow == << <<Pad(13), 7>> >>
WiderRow == << <<Pad(14), 7>> >>
ToolResults == {<<>>, <<SmallRow>>, <<WideRow, WideRow>>, <<WiderRow>>,
                <<SmallRow, WiderRow>>}

\* lines 239-285: the text for the rows the executor returned
QueryText(result) ==
    IF result = <<>>
    THEN [rows |-> 0, shown |-> 0, warning |-> FALSE, text |-> "empty"]
    ELSE LET limited_result == limit_result_size(result, query_max_chars) IN
         IF limited_result # <<>>
         THEN [rows |-> Len(result), shown |-> Len(limited_result),
               warning |-> Len(limited_result) < Len(result),
               text |-> "rows"]
         ELSE [rows |-> Len(result), shown |-> 0, warning |-> FALSE,
               text |-> "empty_data"]

\* lines 231-307: the executor has returned rows or raised; the failure or
\* the rows become the text the tool returns
MysqlQueryEnd(t) ==
    /\ pc[t] = "done"
    /\ tool.stage = "exec"
    /\ IF res[t].kind = "raise"
       THEN LET e == res[t].exc
                h == GetLocal(t).conn
            IN /\ conns' = IF ShouldInvalidate(e)
                           THEN InvalidateConns(conns, h) ELSE conns
               /\ cache' = IF ShouldInvalidate(e)
                           THEN InvalidateCache(cache, t, h) ELSE cache
               /\ used' = IF ShouldInvalidate(e)
                          THEN InvalidateUsed(used, t, h) ELSE used
               /\ tool' = [tool EXCEPT
                             !.stage = "ret", !.exc = e, !.entry = GetLocal(t),
                             !.text = IF TimeoutText(e, tool.sql)
                                      THEN "timeout_failure"
                                      ELSE "failure"]
       ELSE /\ \E result \in ToolResults :
                 tool' = [tool EXCEPT
                            !.stage = "ret", !.entry = GetLocal(t),
                            !.text = QueryText(result).text,
                            !.rows = QueryText(result).rows,
                            !.shown = QueryText(result).shown,
                            !.warning = QueryText(result).warning]
            /\ UNCHANGED <<conns, cache, used>>
    /\ res' = [res EXCEPT ![t] = Result("return", NoExc, None)]
    /\ loc' = [loc EXCEPT ![t].op = "mysql_query"]
    /\ UNCHANGED <<cfails, now, ticks, faults, lock, nextH, pc, budget,
                   inflight, trace, sleeps>>

\* mysql_list_tables, lines 61-63: get the manager, enter a cursor scope
MysqlListTables(t, missing) ==
    /\ pc[t] = "idle"
    /\ budget > 0
    /\ tool.stage = "-"
    /\ IF tool.manager \/ ConfigComplete(missing)
       THEN /\ GetCursor(t)
            /\ tool' = [tool EXCEPT
                          !.manager = TRUE, !.stage = "scope",
                          !.missing = IF tool.manager THEN {} ELSE missing]
       ELSE ToolReturnsEarly(t, "mysql_list_tables", "config_error", "-",
                             missing)

\* mysql_list_tables, lines 63-102: the scope has ended; the table names
\* or the failure become the text the tool returns
MysqlListTablesEnd(t) ==
    /\ pc[t] = "done"
    /\ tool.stage = "scope"
    /\ tool' = [tool EXCEPT
                  !.stage = "ret", !.exc = res[t].exc,
                  !.text = IF res[t].kind = "raise" THEN "failure"
                           ELSE "tables"]
    /\ res' = [res EXCEPT ![t] = Result("return", NoExc, None)]
    /\ loc' = [loc EXCEPT ![t].op = "mysql_list_tables"]
    /\ UNCHANGED <<cfails, now, ticks, faults, lock, cache, conns, nextH, pc,
                   budget, used, inflight, trace, sleeps>>

\* mysql_describe_table, lines 116-123: check the table name, get the
\* manager, enter a cursor scope; DESCRIBE is the body's first statement
MysqlDescribeTable(t, table_name, missing) ==
    /\ pc[t] = "idle"
    /\ budget > 0
    /\ tool.stage = "-"
    /\ IF ~ValidateTableName(table_name)
       THEN ToolReturnsEarly(t, "mysql_describe_table", "bad_table", "-", {})
       ELSE IF tool.manager \/ ConfigComplete(missing)
       THEN /\ GetCursor(t)
            /\ tool' = [tool EXCEPT
                          !.manager = TRUE, !.stage = "describe",
                          !.missing = IF tool.manager THEN {} ELSE missing]
       ELSE ToolReturnsEarly(t, "mysql_describe_table", "config_error", "-",
                             missing)

\* lines 66 and 126: the body's first statement starts, SHOW TABLES in
\* mysql_list_tables and DESCRIBE in mysql_describe_table
ToolFirstStmtBegin(t) ==
    /\ tool.stage \in {"scope", "describe"}
    /\ loc[t].stmts = 0
    /\ BodyStmtBegin(t)
    /\ UNCHANGED tool

\* lines 66-70 and 126-129: the first statement ends; its error leaves the
\* body, its rows are fetched, and DESCRIBE has answered with columns or
\* with none
ToolFirstStmtEnd(t) ==
    /\ tool.stage \in {"scope", "describe"}
    /\ loc[t].stmts = 1
    /\ BodyStmtEnd(t)
    /\ IF tool.stage = "describe" /\ pc'[t] = "body"
       THEN \E columns \in {"some", "none"} :
              tool' = [tool EXCEPT !.columns = columns]
       ELSE tool' = tool

\* lines 135 and 173: DESCRIBE gave columns, so the statement for the
\* column comments starts, and after it the one for the index list
DescribeAuxBegin(t) ==
    /\ pc[t] = "body"
    /\ tool.stage = "describe"
    /\ tool.columns = "some"
    /\ loc[t].stmts \in {1, 2}
    /\ pc' = [pc EXCEPT ![t] = "stmt"]
    /\ loc' = [loc EXCEPT ![t].stmts = @ + 1]
    /\ used' = Use(used, loc[t].conn, t)
    /\ inflight' = inflight \cup {<<t, loc[t].conn>>}
    /\ trace' = [trace EXCEPT ![t] = Append(@, "stmt")]
    /\ UNCHANGED <<cfails, now, ticks, faults, lock, cache, conns, nextH, budget, res,
                   sleeps, tool>>

\* lines 134-149 and 172-188: each of the two statements stands in a try
\* block that logs the error of its statement and goes on
DescribeAuxEnd(t) ==
    /\ pc[t] = "stmt"
    /\ tool.stage = "describe"
    /\ loc[t].stmts \in {2, 3}
    /\ inflight' = inflight \ {<<t, loc[t].conn>>}
    /\ pc' = [pc EXCEPT ![t] = "body"]
    /\ \E e \in Outcomes(conns, loc[t].conn) :
         /\ conns' = AfterError(conns, loc[t].conn, e)
         /\ faults' = faults + Cost(conns, loc[t].conn, e)
    /\ UNCHANGED <<cfails, now, ticks, lock, cache, nextH, loc, budget, res, used,
                   trace, sleeps, tool>>

\* lines 73-77 and 152-169: the rows are turned into text outside any try
\* block of the body, so an error there leaves the body
ToolBodyRaise(t) ==
    /\ \/ tool.stage = "scope" /\ loc[t].stmts = 1
       \/ tool.stage = "describe" /\ loc[t].stmts = 2
    /\ BodyRaise(t)
    /\ UNCHANGED tool

\* lines 70-71, 96, 129-130 and 191: the body returns after SHOW TABLES,
\* after a DESCRIBE without columns, or after the index list
ToolBodyReturn(t) ==
    /\ \/ tool.stage = "scope" /\ loc[t].stmts = 1
       \/ tool.stage = "describe" /\ loc[t].stmts = 1 /\ tool.columns = "none"
       \/ tool.stage = "describe" /\ loc[t].stmts = 3
    /\ ScopeCommit(t)
    /\ UNCHANGED tool

\* the cursor scope of a tool: get_cursor around the body of the tool
ToolScopeSteps(t) ==
    \/ /\ \/ CursorOpen(t) \/ CursorOpenFailed(t) \/ CursorConnFailed(t)
          \/ CursorSleep(t) \/ ScopeExcept(t) \/ ScopeFinally(t)
       /\ UNCHANGED tool
    \/ ToolFirstStmtBegin(t) \/ ToolFirstStmtEnd(t)
    \/ DescribeAuxBegin(t) \/ DescribeAuxEnd(t)
    \/ ToolBodyRaise(t) \/ ToolBodyReturn(t)

\* faulty variant: the error of the scope is left to the caller
MysqlDescribeTableEndRaises(t) ==
    /\ pc[t] = "done"
    /\ tool.stage = "describe"
    /\ tool' = [tool EXCEPT
                  !.stage = "ret", !.exc = res[t].exc,
                  !.text = IF res[t].kind = "raise" THEN "failure"
                           ELSE IF tool.columns = "some" THEN "structure"
                           ELSE "no_columns"]
    /\ res' = IF res[t].kind = "raise" THEN res
              ELSE [res EXCEPT ![t] = Result("return", NoExc, None)]
    /\ loc' = [loc EXCEPT ![t].op = "mysql_describe_table"]
    /\ UNCHANGED <<cfails, now, ticks, faults, lock, cache, conns, nextH, pc,
                   budget, used, inflight, trace, sleeps>>

\* mysql_describe_table, lines 128-196: the scope has ended; the structure,
\* the note that the table has no columns, or the failure become the text
MysqlDescribeTableEnd(t) ==
    /\ pc[t] = "done"
    /\ tool.stage = "describe"
    /\ tool' = [tool EXCEPT
                  !.stage = "ret", !.exc = res[t].exc,
                  !.text = IF res[t].kind = "raise" THEN "failure"
                           ELSE IF tool.columns = "some" THEN "structure"
                           ELSE "no_columns"]
    /\ res' = [res EXCEPT ![t] = Result("return", NoExc, None)]
    /\ loc' = [loc EXCEPT ![t].op = "mysql_describe_table"]
    /\ UNCHANGED <<cfails, now, ticks, faults, lock, cache, conns, nextH, pc,
                   budget, used, inflight, trace, sleeps>>

\* the tool call has returned its text
ToolFinish(t) ==
    /\ tool.stage = "ret"
    /\ Finish(t)
    /\ tool' = [NoTool EXCEPT !.manager = tool.manager]

\* ------------------------------------------------------------ server/main.py
\* lines 20-22
RATE_LIMIT_MAX_ATTEMPTS == 10
RATE_LIMIT_WINDOW_SECONDS == 60
RATE_LIMIT_ENDPOINTS == {<<"/api/auth/token", "POST">>}

\* requests of the one client address: path and method
Requests == {<<"/api/auth/token", "POST">>, <<"/api/auth/token/", "POST">>,
             <<"/api/auth/token", "GET">>}
LimiterTickSteps == {1, 59, 61}
Statuses == {200, 401}

\* line 54: request.url.path.rstrip("/") or "/"
NormalizedPath(path) ==
    IF path = "/api/auth/token/" THEN "/api/auth/token" ELSE path

\* lines 63-64: timestamps older than the window leave from the left
RECURSIVE Prune(_, _)
Prune(attempt_history, now_read) ==
    IF attempt_history # <<>>
       /\ now_read - Head(attempt_history) > RATE_LIMIT_WINDOW_SECONDS
    THEN Prune(Tail(attempt_history), now_read)
    ELSE attempt_history

\* faulty variant: the limit is passed only when it is exceeded
RateLimitedOver(attempt_history) ==
    Len(attempt_history) > RATE_LIMIT_MAX_ATTEMPTS

\* line 66
RateLimited(attempt_history) ==
    Len(attempt_history) >= RATE_LIMIT_MAX_ATTEMPTS

\* time.monotonic() advances
RL_Tick ==
    /\ rl.ticks < MaxLimiterTicks
    /\ \E d \in LimiterTickSteps :
         rl' = [rl EXCEPT !.clock = @ + d, !.ticks = @ + 1]

\* dispatch, lines 53-76 and 85: a request arrives. For a login request
\* the clock is read and the history pruned, then the request is refused
\* with 429 or recorded and handed to call_next. The lock is free whenever
\* it is asked for, since no await lies between its acquire and release,
\* so the section is one step of the event loop
RL_Request(req) ==
    /\ rl.arrived < MaxRequests
    /\ IF <<NormalizedPath(req[1]), req[2]>> \in RATE_LIMIT_ENDPOINTS
       THEN LET attempt_history == Prune(rl.hist, rl.clock) IN
            IF RateLimited(attempt_history)
            THEN rl' = [rl EXCEPT !.arrived = @ + 1, !.hist = attempt_history,
                                  !.last = "429"]
            ELSE rl' = [rl EXCEPT !.arrived = @ + 1,
                                  !.hist = Append(attempt_history, rl.clock),
                                  !.waiting = @ + 1, !.last = "forwarded"]
       ELSE rl' = [rl EXCEPT !.arrived = @ + 1, !.last = "passed"]

\* lines 78-83: call_next has answered a login request; an answer below
\* 400 drops the address from _login_attempts
RL_Respond(status_code) ==
    /\ rl.waiting > 0
    /\ rl' = [rl EXCEPT !.waiting = @ - 1,
                        !.hist = IF status_code < 400 THEN <<>> ELSE @,
                        !.last = IF status_code < 400 THEN "cleared"
                                 ELSE "answered"]

\* ------------------------------------------- knowledge/adapters/scitoolkg.py
\* the node names, in the order of the graph dict
KgNodes == <<"a", "b", "c">>
KgNodeSet == {KgNodes[i] : i \in DOMAIN KgNodes}

\* the edge lists of one node: up to two (relation, target) pairs
KgLists ==
    {<<>>}
    \cup {<< <<"uses", x>> >> : x \in KgNodeSet}
    \cup {<< <<"uses", p[1]>>, <<"uses", p[2]>> >> :
            p \in {p \in KgNodeSet \X KgNodeSet : p[1] # p[2]}}

\* self._graph: a node is a key with its edge list, or no key at all
KgGraphs ==
    {g \in [KgNodeSet -> [key : BOOLEAN, out : KgLists]] :
        \A n \in KgNodeSet : ~g[n].key => g[n].out = <<>>}

KgSeeds == {<<>>, <<"a">>, <<"b">>, <<"c">>, <<"a", "b">>}

\* the (relation, source) pairs that the edge list items[i..] of source
\* gives to target
RECURSIVE ReverseItems(_, _, _, _)
ReverseItems(items, i, source, target) ==
    IF i > Len(items) THEN <<>>
    ELSE (IF items[i][2] = target THEN << <<items[i][1], source>> >>
          ELSE <<>>)
         \o ReverseItems(items, i + 1, source, target)

\* build_reverse_graph, knowledge/scitoolkg.py lines 65-70: self._reverse
\* of target, sources taken in dict order from the k-th on
RECURSIVE ReverseFrom(_, _, _)
ReverseFrom(g, k, target) ==
    IF k > Len(KgNodes) THEN <<>>
    ELSE ReverseItems(g[KgNodes[k]].out, 1, KgNodes[k], target)
         \o ReverseFrom(g, k + 1, target)

\* lines 106-109: the seeds that are keys of the graph enter the queue
RECURSIVE SeedState(_, _, _, _)
SeedState(g, seed_nodes, i, st) ==
    IF i > Len(seed_nodes) THEN st
    ELSE SeedState(g, seed_nodes, i + 1,
           IF seed_nodes[i] \in KgNodeSet /\ g[seed_nodes[i]].key
           THEN [st EXCEPT !.q = Append(@, <<seed_nodes[i], 0>>),
                           !.visited = @ \cup {seed_nodes[i]}]
           ELSE st)

\* lines 116-120: the outgoing edges of node
RECURSIVE ExpandOut(_, _, _, _, _, _)
ExpandOut(items, i, node, depth, max_nodes, st) ==
    IF i > Len(items) THEN st
    ELSE LET rel == items[i][1]
             target == items[i][2]
             added == target \notin st.visited
                      /\ Cardinality(st.visited) < max_nodes
         IN ExpandOut(items, i + 1, node, depth, max_nodes,
              [q |-> IF added THEN Append(st.q, <<target, depth + 1>>)
                     ELSE st.q,
               visited |-> IF added THEN st.visited \cup {target}
                           ELSE st.visited,
               edges |-> st.edges \cup {<<node, rel, target>>}])

\* lines 122-126: the incoming edges of node
RECURSIVE ExpandIn(_, _, _, _, _, _)
ExpandIn(items, i, node, depth, max_nodes, st) ==
    IF i > Len(items) THEN st
    ELSE LET rel == items[i][1]
             source == items[i][2]
             added == source \notin st.visited
                      /\ Cardinality(st.visited) < max_nodes
         IN ExpandIn(items, i + 1, node, depth, max_nodes,
              [q |-> IF added THEN Append(st.q, <<source, depth + 1>>)
                     ELSE st.q,
               visited |-> IF added THEN st.visited \cup {source}
                           ELSE st.visited,
               edges |-> st.edges \cup {<<source, rel, node>>}])

\* lines 111-126: the loop over the queue
RECURSIVE BfsLoop(_, _, _, _)
BfsLoop(g, max_depth, max_nodes, st) ==
    IF st.q = <<>> \/ Cardinality(st.visited) >= max_nodes THEN st
    ELSE LET node == Head(st.q)[1]
             depth == Head(st.q)[2]
             rest == [st EXCEPT !.q = Tail(@)]
         IN IF depth >= max_depth THEN BfsLoop(g, max_depth, max_nodes, rest)
            ELSE BfsLoop(g, max_depth, max_nodes,
                   ExpandIn(ReverseFrom(g, 1, node), 1, node, depth,
                            max_nodes,
                            ExpandOut(g[node].out, 1, node, depth, max_nodes,
                                      rest)))

\* lines 99-128
bfs_subgraph(g, seed_nodes, max_depth, max_nodes) ==
    BfsLoop(g, max_depth, max_nodes,
            SeedState(g, seed_nodes, 1,
                      [q |-> <<>>, visited |-> {}, edges |-> {}]))

\* a caller is about to search a graph
SearchInit ==
    /\ MgrInit
    /\ budget = 0
    /\ bnd = NoCall
    /\ tool = NoTool
    /\ gm = GmInit
    /\ rl = NoLimiter
    /\ kg \in [pc : {"call"}, graph : KgGraphs, seeds : KgSeeds,
               max_depth : 0..MaxDepth, max_nodes : 0..MaxNodes,
               nodes : {{}}, edges : {{}}]

BfsSubgraph ==
    /\ kg.pc = "call"
    /\ LET st == bfs_subgraph(kg.graph, kg.seeds, kg.max_depth, kg.max_nodes)
       IN kg' = [kg EXCEPT !.pc = "ret", !.nodes = st.visited,
                           !.edges = st.edges]
    /\ UNCHANGED <<now, ticks, faults, cfails, lock, cache, conns, nextH, pc,
                   loc, budget, res, used, inflight, trace, sleeps, bnd, tool, gm,
                   rl>>

\* ------------------------------------------------------------ specifications
GetConnSteps(t) ==
    GC_Check(t) \/ GC_Lock(t) \/ GC_Connect(t) \/ GC_Sleep(t)

ScopeSteps(t) ==
    \/ CursorOpen(t) \/ CursorOpenFailed(t) \/ CursorConnFailed(t)
    \/ CursorSleep(t)
    \/ BodyStmtBegin(t) \/ BodyStmtEnd(t) \/ BodyRaise(t)
    \/ ScopeCommit(t) \/ ScopeExcept(t) \/ ScopeFinally(t)

WorkerSteps(w) ==
    \/ WorkerStart(w) \/ WorkerExecBegin(w) \/ WorkerCursorFailed(w)
    \/ WorkerExecEnd(w)

ExecSteps(t) == ExecResult(t) \/ ExecTimeout(t) \/ ExecExit(t)

\* threads calling get_connection, get_cursor and
\* execute_query_with_timeout on one manager
Next ==
    /\ \/ \E t \in Threads : GetConnSteps(t) \/ WorkerSteps(t)
       \/ \E t \in Callers :
            \/ GetConnection(t) \/ GetCursor(t) \/ ExecStart(t)
            \/ ScopeSteps(t) \/ ExecSteps(t) \/ Finish(t)
    /\ UNCHANGED <<bnd, tool, gm, rl, kg>>

Spec == Init /\ [][Next]_vars

\* one thread through the life of its connection, the clock advancing
LifeCaller == <<"t1", 0>>
LifeInit ==
    /\ MgrInit
    /\ budget = MaxLifeOps
    /\ bnd = NoCall
    /\ tool = NoTool
    /\ gm = GmInit
    /\ rl = NoLimiter
    /\ kg = NoSearch
NextLife ==
    /\ \/ Tick
       \/ GetConnSteps(LifeCaller)
       \/ ScopeSteps(LifeCaller) \/ BodyInvalidate(LifeCaller)
       \/ GetConnection(LifeCaller) \/ GetCursor(LifeCaller)
       \/ TestConnection(LifeCaller) \/ ProbeEnd(LifeCaller)
       \/ InvalidateConnection(LifeCaller) \/ Close(LifeCaller)
       \/ Finish(LifeCaller)
    /\ UNCHANGED <<bnd, tool, gm, rl, kg>>

SpecLife == LifeInit /\ [][NextLife]_vars

\* two threads that only call get_connection, the clock advancing
LockInit ==
    /\ MgrInit
    /\ budget = MaxLockOps
    /\ bnd = NoCall
    /\ tool = NoTool
    /\ gm = GmInit
    /\ rl = NoLimiter
    /\ kg = NoSearch
NextLock ==
    /\ \/ Tick
       \/ \E t \in Callers : GetConnSteps(t) \/ GetConnection(t) \/ Finish(t)
    /\ UNCHANGED <<bnd, tool, gm, rl, kg>>

SpecLock == LockInit /\ [][NextLock]_vars

\* the same two threads, each going on with a call it has started: a
\* running thread takes its next step, and a thread waiting at the lock is
\* woken when the lock is free
SpecLockLive ==
    /\ SpecLock
    /\ \A t \in Callers : WF_vars(GetConnSteps(t) /\ UNCHANGED <<bnd, tool, gm, rl, kg>>)

\* one thread that gets connections and cursor scopes and invalidates: its
\* cached handle, a handle it names, or none
NextInval ==
    /\ \/ GetConnSteps(LifeCaller)
       \/ ScopeSteps(LifeCaller)
       \/ GetConnection(LifeCaller) \/ GetCursor(LifeCaller)
       \/ InvalidateConnection(LifeCaller)
       \/ \E h \in Handles \cup {None} : InvalidateGiven(LifeCaller, h)
       \/ Finish(LifeCaller)
    /\ UNCHANGED <<bnd, tool, gm, rl, kg>>

SpecInval == LifeInit /\ [][NextInval]_vars

\* one thread calling the tools: mysql_list_tables runs a cursor scope in
\* the calling thread, mysql_query runs its statement in a pool thread
NextQuery ==
    /\ \/ /\ \/ \E w \in Threads : GetConnSteps(w) \/ WorkerSteps(w)
             \/ ExecSteps(LifeCaller)
          /\ UNCHANGED tool
       \/ ToolScopeSteps(LifeCaller)
       \/ \E sql \in Statements : \E timeout \in Timeouts :
            \E missing \in MissingSets :
                MysqlQuery(LifeCaller, sql, timeout, missing)
       \/ MysqlQueryEnd(LifeCaller)
       \/ \E missing \in MissingSets : MysqlListTables(LifeCaller, missing)
       \/ MysqlListTablesEnd(LifeCaller)
       \/ \E table_name \in TableNames : \E missing \in MissingSets :
            MysqlDescribeTable(LifeCaller, table_name, missing)
       \/ MysqlDescribeTableEnd(LifeCaller)
       \/ ToolFinish(LifeCaller)
    /\ UNCHANGED <<bnd, gm, rl, kg>>

SpecQuery == Init /\ [][NextQuery]_vars

\* two threads calling get_connection_manager, each statement a step
NextManager ==
    /\ \E t \in Callers :
         \/ GM_Call(t) \/ GM_Check(t)
         \/ \E missing \in MissingSets : GM_Build(t, missing)
         \/ GM_Store(t) \/ GM_Return(t) \/ GM_Finish(t)
    /\ UNCHANGED <<now, ticks, faults, cfails, lock, cache, conns, nextH, pc,
                   loc, budget, res, used, inflight, trace, sleeps, bnd, tool, rl,
                   kg>>

SpecManager == Init /\ [][NextManager]_vars

\* requests of one client address reaching the login rate limiter
NextLimiter ==
    /\ \/ RL_Tick
       \/ \E req \in Requests : RL_Request(req)
       \/ \E status_code \in Statuses : RL_Respond(status_code)
    /\ UNCHANGED <<now, ticks, faults, cfails, lock, cache, conns, nextH, pc,
                   loc, budget, res, used, inflight, trace, sleeps, bnd, tool, gm,
                   kg>>

SpecLimiter == Init /\ [][NextLimiter]_vars

\* _bfs_subgraph on every graph, seed list and limits within the bounds
NextSearch == BfsSubgraph

SpecSearch == SearchInit /\ [][NextSearch]_vars

\* limit_result_size on every result set and budget within the bounds
NextBounder == LimitResultSize

SpecBounder == BounderInit /\ [][NextBounder]_vars

\* -------------------------------------------------------------- properties
Count(seq, x) == Cardinality({i \in DOMAIN seq : seq[i] = x})

\* _get_connection has just returned loc[t].conn to t
JustReturned(t) ==
    \/ pc[t] \in {"cur_open", "w_cursor"}
    \/ pc[t] = "done" /\ loc[t].op = "get_connection" /\ res[t].kind = "return"

\* the slot held a handle older than max_connection_age when t called
StaleAtCall(t) ==
    /\ loc[t].entry.conn # None
    /\ loc[t].ct - loc[t].entry.last > max_connection_age

\* C1: every method call on a handle (cursor, execute, commit, rollback,
\* close) is made by the thread whose _get_connection created it, and no
\* two distinct threads have a statement in flight on one handle
C1_HandleUsedByCreatorOnly ==
    /\ \A h \in Handles : used[h] \subseteq {conns[h].creator}
    /\ \A p \in inflight : \A q \in inflight : p[2] = q[2] => p[1] = q[1]

\* a caller's statement and a query worker's statement are in flight at once
C1_Witness ==
    \E p \in inflight : \E q \in inflight :
        p[1] \in Callers /\ q[1] \notin Callers /\ p[2] # q[2]

\* C2: once the wait of execute_query_with_timeout has timed out, the caller
\* gets QueryTimeoutError without waiting for the worker: it is never held
\* back by a worker that has not ended
C2_TimedOutCallerNotHeld ==
    \A t \in Callers : pc[t] = "executor_exit" => WorkerEnded(t)

\* C3: a cursor scope whose body raised E has called rollback once, has not
\* called commit, and raises exactly E, also when the rollback failed
C3_BodyErrorRollsBackAndPropagates ==
    \A t \in Callers :
        (pc[t] = "done" /\ loc[t].op = "get_cursor" /\ loc[t].body = "raised")
        => /\ Count(trace[t], "rollback") = 1
           /\ Count(trace[t], "commit") = 0
           /\ res[t] = Result("raise", loc[t].bexc, None)

\* a scope ended whose body raised and whose rollback failed
C3_Witness ==
    \E t \in Callers :
        /\ pc[t] = "done" /\ loc[t].op = "get_cursor" /\ loc[t].body = "raised"
        /\ Count(trace[t], "rollback_failed") = 1
        /\ res[t].exc = loc[t].bexc

\* C4: once the body of a cursor scope has ended normally, commit has been
\* called exactly once, after every statement of the body
C4_CommitOnceAfterStatements ==
    \A t \in Callers :
        (loc[t].op = "get_cursor" /\ loc[t].body = "ok")
        => /\ Count(trace[t], "commit") = 1
           /\ \A i \in DOMAIN trace[t] : \A j \in DOMAIN trace[t] :
                (trace[t][i] = "stmt" /\ trace[t][j] = "commit") => i < j

\* a scope returned normally after a statement and its commit
C4_Witness ==
    \E t \in Callers :
        /\ pc[t] = "done" /\ loc[t].op = "get_cursor" /\ loc[t].body = "ok"
        /\ res[t].kind = "return"
        /\ Count(trace[t], "stmt") >= 1

\* C5: a _get_connection call that found the cached handle older than
\* max_connection_age returns a handle created in this call, not the cached
\* one, and the recorded timestamp is strictly greater than the old one
C5_StaleHandleReplaced ==
    \A t \in Threads :
        (JustReturned(t) /\ StaleAtCall(t))
        => /\ loc[t].conn # loc[t].entry.conn
           /\ loc[t].conn = loc[t].created
           /\ conns[loc[t].conn].creator = t
           /\ GetLocal(t).conn = loc[t].conn
           /\ GetLocal(t).last > loc[t].entry.last

\* a call that found a stale, still open handle has returned
C5_Witness ==
    \E t \in Threads :
        /\ JustReturned(t) /\ StaleAtCall(t)
        /\ pc[t] = "done"
        /\ conns[loc[t].entry.conn].closed

\* C6 as claimed: no statement that the manager's own code issues
\* (test_connection's probe, the query worker's statement) goes to a cached
\* handle that is older than max_connection_age or reports closed
C6_NoStatementOnStaleOrClosed ==
    \A t \in Threads :
        loc[t].q.h # None => (~loc[t].q.stale /\ loc[t].q.open)

\* C6 as amended: the handle _get_connection returns reports open and is
\* either created in this call or the cached one, not older than
\* max_connection_age at the call's clock reading; test_connection probes
\* only a handle that reports open (it does not look at the age)
C6_ReturnedHandleOpenAndFresh ==
    \A t \in Threads :
        /\ JustReturned(t)
           => /\ loc[t].conn # None
              /\ conns[loc[t].conn].open
              /\ \/ loc[t].conn = loc[t].created
                 \/ /\ loc[t].conn = loc[t].entry.conn
                    /\ loc[t].ct - loc[t].entry.last <= max_connection_age
        /\ loc[t].q.h # None => loc[t].q.open

\* a call found a cached handle that reports closed, and replaced it
C6_Witness ==
    \E t \in Threads :
        /\ JustReturned(t)
        /\ loc[t].entry.conn # None
        /\ ~StaleAtCall(t)
        /\ loc[t].conn = loc[t].created
        /\ loc[t].conn # loc[t].entry.conn

\* C7: a thread has at most one live (open) handle among those it created
C7_OneLiveHandlePerThread ==
    \A t \in Threads :
        Cardinality({h \in Handles : conns[h].creator = t /\ conns[h].open}) <= 1

\* a thread is on its second handle, the first one closed, in a run where
\* a connect attempt failed
C7_Witness ==
    \E t \in Callers : \E h1 \in Handles : \E h2 \in Handles :
        /\ conns[h1].creator = t /\ conns[h2].creator = t
        /\ conns[h1].closed /\ conns[h2].open
        /\ GetLocal(t).conn = h2
        /\ cfails > 0

\* C8: a query worker that got a connection has invalidated it (handle
\* closed, its slot cleared) when it ends
C8_WorkerInvalidatesItsConnection ==
    \A w \in Threads \ Callers :
        (pc[w] = "w_done" /\ loc[w].conn # None)
        => /\ ~conns[loc[w].conn].open
           /\ GetLocal(w).conn = None

\* C9: a result set whose serialization exceeds the budget comes back as a
\* strict prefix: fewer rows, truncated_count > 0
C9_StrictPrefix ==
    (bnd.pc = "ret" /\ ListStrLen(bnd.result) > bnd.max_chars)
    => /\ Len(bnd.out) < Len(bnd.result)
       /\ bnd.out = SubSeq(bnd.result, 1, Len(bnd.out))

\* C10: for a result set whose serialization exceeds the budget, the
\* serialization of the returned list is at most the budget
C10_ReturnedWithinBudget ==
    (bnd.pc = "ret" /\ ListStrLen(bnd.result) > bnd.max_chars)
    => ListStrLen(bnd.out) <= bnd.max_chars

\* C11: a result set whose serialization is at most the budget, the empty
\* one included, comes back unchanged: the same rows in the same order
C11_WithinBudgetUnchanged ==
    (bnd.pc = "ret" /\ ListStrLen(bnd.result) <= bnd.max_chars)
    => bnd.out = bnd.result

\* a result set of several rows that fills its budget exactly came back
C11_Witness ==
    /\ bnd.pc = "ret"
    /\ Len(bnd.result) >= 2
    /\ ListStrLen(bnd.result) = bnd.max_chars
    /\ bnd.out = bnd.result

\* C12: a get_connection call makes at most 3 connect attempts; when it
\* returns, it returns a handle, and after failed attempts the handle is
\* the one the first successful attempt made; three attempts failed with
\* driver errors end the call with ConnectionError, and only they do
C12_ThreeAttemptsThenConnectionError ==
    \A t \in Threads :
        LET failed == Count(trace[t], "connect_failed") IN
        /\ loc[t].op = "get_connection" => failed <= 3
        /\ (pc[t] = "done" /\ loc[t].op = "get_connection")
           => /\ res[t].kind \in {"return", "raise"}
              /\ res[t].kind = "return"
                 => /\ res[t].val # None
                    /\ failed < 3
                    /\ failed > 0 => res[t].val = loc[t].created
              /\ failed = 3 => res[t] = Result("raise", "ConnectionError", None)
              /\ res[t].exc = "ConnectionError" => failed = 3

\* a get_connection call ended with ConnectionError after three attempts
C12_Witness ==
    \E t \in Threads :
        /\ pc[t] = "done" /\ loc[t].op = "get_connection"
        /\ res[t] = Result("raise", "ConnectionError", None)
        /\ Count(trace[t], "connect_failed") = 3

\* C13: a creation that exhausted its retries has slept the pauses
\* 1 s, 2 s and 4 s, in this order
C13_BackoffOneTwoFour ==
    \A t \in Threads :
        (pc[t] = "done" /\ loc[t].op = "get_connection"
            /\ res[t].exc = "ConnectionError")
        => sleeps[t] = <<1, 2, 4>>

\* the handle the last _get_connection call of t returned
AttemptedConn(t) ==
    IF loc[t].created # None THEN loc[t].created ELSE loc[t].entry.conn

\* C14: get_cursor tries at most twice to get a connection and a cursor.
\* After the first failed attempt the attempted connection is closed and
\* the slot is empty, then it pauses 1 s and tries once more; after the
\* second failed attempt that attempt's error is raised and the body has
\* not run
C14_TwoAttemptsThenRaise ==
    \A t \in Threads :
        LET failed == Count(trace[t], "acquire_failed") IN
        loc[t].op = "get_cursor"
        => /\ loc[t].attempt <= 1
           /\ failed <= 2
           /\ pc[t] = "cur_sleep"
              => /\ failed = 1 /\ loc[t].attempt = 0
                 /\ GetLocal(t).conn = None
                 /\ loc[t].exc = "CursorError"
                    => /\ AttemptedConn(t) # None
                       /\ ~conns[AttemptedConn(t)].open
           /\ failed \in {loc[t].attempt, loc[t].attempt + 1}
           /\ (pc[t] = "gc_check" /\ loc[t].attempt = 1)
              => /\ sleeps[t] # <<>>
                 /\ sleeps[t][Len(sleeps[t])] = 1
           /\ failed = 2
              => /\ pc[t] = "done"
                 /\ res[t] = Result("raise", loc[t].exc, None)
                 /\ loc[t].exc # NoExc
                 /\ loc[t].body = "-"
                 /\ Count(trace[t], "yield") = 0
           /\ Count(trace[t], "yield") > 0 => failed <= 1

\* a scope gave up: the first attempt could not connect, the second could
\* not open a cursor
C14_Witness ==
    \E t \in Threads :
        /\ pc[t] = "done" /\ loc[t].op = "get_cursor"
        /\ Count(trace[t], "acquire_failed") = 2
        /\ Count(trace[t], "connect_failed") > 0
        /\ res[t] = Result("raise", "CursorError", None)

\* C15: _invalidate_connection(h) with a handle h that is not the one in
\* the caller's slot closes h and leaves the slot (handle and timestamp) as
\* it was; the slot changes only when h is the cached handle or no handle
\* was given, and then it is empty
C15_OtherHandleLeavesSlot ==
    \A t \in Threads :
        (pc[t] = "done" /\ loc[t].op = "_invalidate_connection")
        => /\ (loc[t].conn # None /\ loc[t].conn # loc[t].entry.conn)
              => /\ ~conns[loc[t].conn].open
                 /\ GetLocal(t) = loc[t].entry
           /\ GetLocal(t) # loc[t].entry
              => /\ loc[t].conn = None \/ loc[t].conn = loc[t].entry.conn
                 /\ GetLocal(t) = EmptyEntry

\* a handle that was not the cached one was invalidated while the slot
\* held another, open handle
C15_Witness ==
    \E t \in Threads :
        /\ pc[t] = "done" /\ loc[t].op = "_invalidate_connection"
        /\ loc[t].conn # None
        /\ loc[t].entry.conn # None
        /\ loc[t].conn # loc[t].entry.conn
        /\ conns[loc[t].entry.conn].open
        /\ GetLocal(t) = loc[t].entry

\* positions of the events of t's scope, from the yield on
Scoped(t, x) ==
    {i \in DOMAIN trace[t] :
        /\ trace[t][i] = x
        /\ \E y \in DOMAIN trace[t] : trace[t][y] = "yield" /\ y < i}

\* C17: in a cursor scope that ends with an error the events come in the
\* order error, rollback, invalidation (when triggered), re-raise: every
\* rollback follows the error, every invalidation follows the rollback,
\* and the re-raise follows them all
C17_ErrorRollbackInvalidateRaise ==
    \A t \in Threads :
        loc[t].op = "get_cursor"
        => /\ \A r \in Scoped(t, "rollback") :
                \E e \in Scoped(t, "error") : e < r
           /\ \A i \in Scoped(t, "invalidate") :
                \E r \in Scoped(t, "rollback") : r < i
           /\ \A x \in Scoped(t, "raise") :
                /\ x = Len(trace[t])
                /\ \E r \in Scoped(t, "rollback") : r < x
                /\ \A i \in Scoped(t, "invalidate") : i < x
           /\ (pc[t] = "done" /\ res[t].kind = "raise"
                 /\ Count(trace[t], "yield") = 1)
              => /\ Cardinality(Scoped(t, "raise")) = 1
                 /\ Cardinality(Scoped(t, "rollback")) = 1
                 /\ ConnFault(res[t].exc)
                    <=> Cardinality(Scoped(t, "invalidate")) = 1

\* a scope ended with a connection fault: rolled back, invalidated, raised
C17_Witness ==
    \E t \in Threads :
        /\ pc[t] = "done" /\ loc[t].op = "get_cursor"
        /\ res[t].kind = "raise"
        /\ Scoped(t, "invalidate") # {}
        /\ Scoped(t, "raise") # {}

\* C18: a scope that yielded a cursor has closed it when it ends, on
\* every path; an error of the close is swallowed: the scope returns when
\* body and commit succeeded, and raises the error it had otherwise
C18_CursorClosedOnEveryExit ==
    \A t \in Threads :
        (pc[t] = "done" /\ loc[t].op = "get_cursor"
            /\ Count(trace[t], "yield") = 1)
        => /\ loc[t].cur = "closed"
           /\ Count(trace[t], "cursor_close") = 1
           /\ Count(trace[t], "error") = 0
              => res[t] = Result("return", NoExc, None)
           /\ loc[t].body = "raised"
              => res[t] = Result("raise", loc[t].bexc, None)
           /\ Count(trace[t], "error") = 1
              => /\ res[t].kind = "raise"
                 /\ res[t].exc \in QueryErrors \cup BodyErrors
                                  \cup {"InterfaceError"}

\* a scope whose body and commit succeeded returned although closing the
\* cursor failed
C18_Witness ==
    \E t \in Threads :
        /\ pc[t] = "done" /\ loc[t].op = "get_cursor"
        /\ Count(trace[t], "cursor_close_failed") = 1
        /\ Count(trace[t], "commit") = 1
        /\ res[t] = Result("return", NoExc, None)

\* C19: a mysql_query call with a statement the validator rejects returns
\* the rejection text at once and touches nothing: no manager is made, no
\* connection is created, used or invalidated, the manager's state stays
C19_RejectedTouchesNothing ==
    [][\A t \in Callers :
         (pc[t] = "idle" /\ pc'[t] # "idle" /\ tool'.sql # "-"
             /\ ~ValidateSql(tool'.sql))
         => /\ pc'[t] = "done"
            /\ tool'.text = "rejected"
            /\ res'[t] = Result("return", NoExc, None)
            /\ tool'.manager = tool.manager
            /\ UNCHANGED <<lock, cache, conns, nextH, used, inflight>>
            /\ \A w \in Threads \ {t} : pc'[w] = pc[w]]_vars

\* an unsafe statement was rejected while the calling thread held an open
\* cached connection
C19_Witness ==
    \E t \in Callers :
        /\ pc[t] = "done" /\ loc[t].op = "mysql_query"
        /\ tool.text = "rejected"
        /\ GetLocal(t).conn # None
        /\ conns[GetLocal(t).conn].open

\* C20: when the executor of mysql_query raised an error other than
\* QueryTimeoutError, the calling thread's cached connection is closed and
\* its slot empty when the failure text is returned; when it raised
\* QueryTimeoutError the calling thread's slot is as it was
C20_FailureInvalidatesTimeoutDoesNot ==
    \A t \in Callers :
        (pc[t] = "done" /\ loc[t].op = "mysql_query" /\ tool.stage = "ret"
            /\ tool.exc \notin {NoExc, "MySQLConnectionError"})
        => IF tool.exc = "QueryTimeoutError"
           THEN GetLocal(t) = tool.entry
           ELSE /\ GetLocal(t) = EmptyEntry
                /\ tool.entry.conn # None => ~conns[tool.entry.conn].open

\* a query failed in its worker while the calling thread held an open
\* cached connection, which is now closed
C20_Witness ==
    \E t \in Callers :
        /\ pc[t] = "done" /\ loc[t].op = "mysql_query" /\ tool.stage = "ret"
        /\ tool.exc \in QueryErrors
        /\ tool.entry.conn # None
        /\ conns[tool.entry.conn].closed
        /\ GetLocal(t) = EmptyEntry

\* C16: no open handle is dropped from a thread's slot without a close:
\* a handle that reports open is in the slot of the thread that created
\* it; a handle that leaves the slot does not report open afterwards and
\* was closed if it reported open; invalidate_connection() leaves the
\* cached handle closed and the slot empty; and when get_cursor's retry
\* path invalidates with no handle given, after _get_connection raised,
\* the handle it drops does not report open
C16_NoOpenHandleDroppedUnclosed ==
    /\ [](\A h \in Handles :
            conns[h].open => cache[LocalKey(conns[h].creator)].conn = h)
    /\ [][\A t \in Callers :
            LET h == cache[LocalKey(t)].conn IN
            /\ (h # None /\ cache'[LocalKey(t)].conn # h)
               => /\ ~conns'[h].open
                  /\ conns[h].open => conns'[h].closed
            /\ (h # None /\ pc[t] = "idle" /\ pc'[t] = "done"
                  /\ loc'[t].op = "invalidate_connection")
               => /\ conns'[h].closed
                  /\ cache'[LocalKey(t)] = EmptyEntry
            /\ (h # None /\ pc[t] = "cur_fail" /\ pc'[t] # "cur_fail")
               => /\ ~conns[h].open
                  /\ cache'[LocalKey(t)] = EmptyEntry]_vars

\* get_cursor's retry path has invalidated with no handle given: the call
\* found a handle in the slot, _get_connection closed it and failed to
\* create another, and the slot is now empty
C16_Witness ==
    \E t \in Callers :
        /\ pc[t] = "cur_sleep"
        /\ loc[t].op = "get_cursor"
        /\ loc[t].entry.conn # None
        /\ conns[loc[t].entry.conn].closed
        /\ GetLocal(t) = EmptyEntry

\* the per-row serialized lengths of the first n rows, added up
RECURSIVE PrefixChars(_, _)
PrefixChars(rows, n) ==
    IF n = 0 THEN 0 ELSE PrefixChars(rows, n - 1) + RowStrLen(rows[n])

\* C29: for a result set whose serialization exceeds the budget,
\* limit_result_size returns the longest prefix of the rows whose per-row
\* lengths add up to at most the budget; the prefix is empty when the
\* first row alone is longer than the budget
C29_LongestPrefixWithinRowBudget ==
    (bnd.pc = "ret" /\ ListStrLen(bnd.result) > bnd.max_chars)
    => /\ Len(bnd.out) <= Len(bnd.result)
       /\ bnd.out = SubSeq(bnd.result, 1, Len(bnd.out))
       /\ PrefixChars(bnd.result, Len(bnd.out)) <= bnd.max_chars
       /\ Len(bnd.out) < Len(bnd.result)
          => PrefixChars(bnd.result, Len(bnd.out) + 1) > bnd.max_chars
       /\ RowStrLen(bnd.result[1]) > bnd.max_chars => bnd.out = <<>>

\* two rows whose lengths add up to the budget exactly were kept and the
\* third dropped
C29_Witness ==
    /\ bnd.pc = "ret"
    /\ Len(bnd.result) = 3
    /\ Len(bnd.out) = 2
    /\ PrefixChars(bnd.result, 2) = bnd.max_chars

\* C24: a statement is submitted once: a cursor scope has sent as many
\* statements as its body issued and none after an error, and a query
\* worker has sent at most one, also when it failed or its caller timed out
C24_StatementSubmittedOnce ==
    /\ \A t \in Callers :
         loc[t].op = "get_cursor"
         => /\ Count(trace[t], "stmt") <= loc[t].stmts
            /\ \A i \in DOMAIN trace[t] : \A j \in DOMAIN trace[t] :
                 (trace[t][i] = "error" /\ trace[t][j] = "stmt") => j < i
    /\ \A w \in Threads \ Callers : Count(trace[w], "stmt") <= 1
    /\ \A t \in Callers :
         loc[t].op = "execute_query_with_timeout"
         => Cardinality({w \in Threads \ Callers :
                           pc[w] \notin {"unborn", "dead"}}) <= 1

\* a worker's statement failed after its caller had timed out
C24_Witness ==
    \E t \in Callers :
        /\ pc[t] = "executor_exit"
        /\ pc[loc[t].worker] = "w_done"
        /\ res[loc[t].worker].kind = "raise"
        /\ Count(trace[loc[t].worker], "stmt") = 1

\* C25: test_connection never raises; it returns True exactly when the
\* thread's cached handle reported open at the call and the probe statement
\* on it was answered without an error, and False in every other case
C25_ProbeTrueOnlyWhenAnswered ==
    [][\A t \in Callers :
         (pc[t] \in {"idle", "probe"} /\ pc'[t] = "done"
          /\ loc'[t].op = "test_connection")
         => /\ res'[t].kind = "return"
            /\ res'[t].exc = NoExc
            /\ res'[t].val \in BOOLEAN
            /\ res'[t].val
               <=> /\ pc[t] = "probe"
                   /\ loc[t].conn # None
                   /\ loc[t].conn = GetLocal(t).conn
                   /\ loc[t].q.open
                   /\ conns[loc[t].conn].open
                   /\ faults' = faults
                   /\ conns' = conns]_vars

\* a probe on the cached open handle was answered
C25_Witness ==
    \E t \in Callers :
        /\ pc[t] = "done"
        /\ loc[t].op = "test_connection"
        /\ loc[t].conn # None
        /\ res[t].val = TRUE

\* the text of e contains "MySQL", or "connection" in any letter case
FaultText(e) ==
    \E i \in DOMAIN ExcText(e) :
        ExcText(e)[i] \in {"MySQL", "connection", "Connection", "CONNECTION"}

\* C30: when a cursor scope has ended with an error whose text says
\* connection fault, the scope's connection is closed and the thread's slot
\* is empty; a later call that finds the slot empty returns a handle created
\* in that call, and no call returns a handle that was closed
C30_FaultedHandleNotReused ==
    \A t \in Threads :
        /\ (pc[t] = "done" /\ loc[t].op = "get_cursor" /\ res[t].kind = "raise"
              /\ Count(trace[t], "yield") = 1 /\ FaultText(res[t].exc))
           => /\ ~conns[loc[t].conn].open
              /\ conns[loc[t].conn].closed
              /\ GetLocal(t) = EmptyEntry
        /\ JustReturned(t)
           => /\ ~conns[loc[t].conn].closed
              /\ loc[t].entry.conn = None => loc[t].conn = loc[t].created

\* a scope ended with "Connection reset" raised by its body
C30_Witness ==
    \E t \in Threads :
        /\ pc[t] = "done" /\ loc[t].op = "get_cursor"
        /\ Count(trace[t], "yield") = 1
        /\ res[t] = Result("raise", "RuntimeError", None)
        /\ conns[loc[t].conn].closed
        /\ GetLocal(t) = EmptyEntry

\* C26: a _get_connection call that finds its cached handle open and not
\* older than max_connection_age returns that handle in its first check:
\* the step is possible whoever holds the lock, and it leaves the lock, the
\* slots and the handles as they were
C26_FreshHandleReturnedWithoutLock ==
    /\ [](\A t \in Threads : pc[t] = "gc_check" => ENABLED GC_Check(t))
    /\ [][\A t \in Threads :
           (/\ pc[t] = "gc_check" /\ pc'[t] # "gc_check"
            /\ ~NeedsRefresh(GetLocal(t).conn, now, GetLocal(t).last))
           => /\ pc'[t] = RetPc(t)
              /\ loc'[t].conn = GetLocal(t).conn
              /\ lock' = lock
              /\ cache' = cache
              /\ conns' = conns]_vars

\* a call has returned its cached handle while another thread holds the
\* lock in the pause between two connection attempts
C26_Witness ==
    \E t \in Threads : \E u \in Threads :
        /\ JustReturned(t)
        /\ loc[t].entry.conn # None
        /\ loc[t].conn = loc[t].entry.conn
        /\ u # t /\ lock = u /\ pc[u] = "gc_sleep"

\* C27: no step of execute_query_with_timeout, in the caller or in its
\* worker, changes the slot of a calling thread; a worker changes only
\* handles it created itself; while the caller waits for the with block to
\* end after a timeout the worker changes nothing of the caller, and the
\* caller then raises QueryTimeoutError
C27_ExecutorLeavesCallerSlot ==
    [][/\ \A w \in Threads \ Callers :
            pc'[w] # pc[w]
            => /\ \A t \in Callers : cache'[t] = cache[t]
               /\ \A h \in Handles :
                    conns'[h] # conns[h] => conns'[h].creator = w
               /\ \A t \in Callers :
                    (pc[t] = "executor_exit" /\ pc'[t] = pc[t])
                    => res'[t] = res[t] /\ loc'[t] = loc[t]
       /\ \A t \in Callers :
            /\ (pc'[t] # pc[t]
                  /\ loc'[t].op = "execute_query_with_timeout")
               => cache' = cache /\ conns' = conns
            /\ (pc[t] = "executor_exit" /\ pc'[t] = "done")
               => res'[t] = Result("raise", "QueryTimeoutError", None)]_vars

\* a worker has invalidated its own connection after its caller, which
\* holds an open cached handle, timed out
C27_Witness ==
    \E t \in Callers :
        /\ pc[t] = "executor_exit"
        /\ pc[loc[t].worker] = "w_done"
        /\ Count(trace[loc[t].worker], "invalidate") = 1
        /\ conns[loc[loc[t].worker].conn].closed
        /\ GetLocal(t).conn # None
        /\ conns[GetLocal(t).conn].open

\* the texts a tool returns
ToolTexts == {"rejected", "bad_timeout", "bad_table", "failure",
              "timeout_failure", "empty", "empty_data", "rows", "tables",
              "structure", "no_columns"}

\* C21: a tool call that has ended has returned a text and raised
\* nothing, whatever the layers below did; an error of theirs has become
\* a failure text
C21_ToolsReturnText ==
    \A t \in Callers :
        /\ (tool.stage = "ret" /\ pc[t] = "done")
           => /\ res[t] = Result("return", NoExc, None)
              /\ loc[t].op \in {"mysql_list_tables", "mysql_describe_table",
                                "mysql_query"}
              /\ tool.text \in ToolTexts
              /\ tool.exc # NoExc
                 => tool.text \in {"failure", "timeout_failure"}
        /\ (pc[t] = "done" /\ res[t].kind = "raise")
           => tool.stage \in {"exec", "scope", "describe"}

\* mysql_describe_table has returned the failure text for a scope that
\* raised the error of a statement
C21_Witness ==
    \E t \in Callers :
        /\ tool.stage = "ret"
        /\ loc[t].op = "mysql_describe_table"
        /\ tool.exc \in QueryErrors
        /\ tool.text = "failure"

\* C22 as claimed: when the rows shown are fewer than the rows the executor
\* returned, the text of mysql_query is the table of rows with the warning
\* that names both counts
C22_TruncatedCarriesIndicator ==
    \A t \in Callers :
        (tool.stage = "ret" /\ loc[t].op = "mysql_query"
            /\ tool.shown < tool.rows)
        => tool.text = "rows" /\ tool.warning

\* C23 as claimed: a first request for the manager that finds one of the
\* five settings missing fails with MySQLConnectionError; no manager is
\* made and no connection was tried
C23_MissingFieldFailsBeforeManager ==
    tool.missing # {}
    => /\ tool.stage = "ret"
       /\ tool.exc = "MySQLConnectionError"
       /\ ~tool.manager
       /\ nextH = 1
       /\ cfails = 0

\* C28 as claimed: mysql_query returns the failure text with the timeout
\* hint exactly when the executor raised QueryTimeoutError
C28_TimeoutHintIffDeadline ==
    \A t \in Callers :
        (tool.stage = "ret" /\ loc[t].op = "mysql_query")
        => (tool.text = "timeout_failure" <=> tool.exc = "QueryTimeoutError")

\* the threads between the close of their old handle and the caching of
\* the new one: connecting, or pausing between two attempts
Creating == {t \in Threads : pc[t] \in {"gc_create", "gc_sleep"}}

\* C31: at most one thread at a time is creating a connection, that
\* thread holds the lock, and the lock is held only by a thread that is
\* creating: a thread waits at the lock only while another one creates
C31_CreationMutuallyExclusive ==
    /\ Cardinality(Creating) <= 1
    /\ \A t \in Creating : lock = t
    /\ lock # NoThread => lock \in Creating
    /\ \A t \in Threads :
         (pc[t] = "gc_lock" /\ ~ENABLED GC_Lock(t))
         => lock \in Creating \ {t}

\* a thread waits at the lock while another pauses between two attempts
C31_Witness ==
    \E t \in Threads : \E u \in Threads :
        /\ t # u
        /\ pc[t] = "gc_lock"
        /\ pc[u] = "gc_sleep"
        /\ lock = u

\* C32: a creation that ends with an error leaves the lock free, and a
\* thread that has come to the lock gets past it: nothing waits forever
\* behind a creation that failed
C32_FailedCreationFreesLock ==
    /\ [][\A t \in Threads :
            (pc[t] = "gc_create" /\ pc'[t] = RaisePc(t))
            => lock = t /\ lock' = NoThread]_vars
    /\ \A t \in Callers : (pc[t] = "gc_lock") ~> (pc[t] # "gc_lock")
    /\ \A t \in Callers : (lock = t) ~> (lock # t)

\* a creation has ended with ConnectionError while the other thread waits
\* at the lock, which is free
C32_Witness ==
    \E t \in Callers : \E u \in Callers :
        /\ t # u
        /\ pc[t] = "gc_lock"
        /\ pc[u] = "done"
        /\ res[u] = Result("raise", "ConnectionError", None)
        /\ lock = NoThread

\* C33 as claimed: whatever the interleaving of the callers, at most one
\* MySQLConnectionManager has been constructed and all calls that returned
\* gave the same instance
C33_OneManagerEver ==
    /\ gm.made <= 1
    /\ \A t \in Callers : \A u \in Callers :
         (gm.got[t] # None /\ gm.got[u] # None) => gm.got[t] = gm.got[u]

\* the recorded attempts that lie within the window at the clock reading
InWindow == {i \in DOMAIN rl.hist :
                rl.clock - rl.hist[i] <= RATE_LIMIT_WINDOW_SECONDS}

\* C34: the history of the address never holds more than
\* RATE_LIMIT_MAX_ATTEMPTS entries, and a login request that arrives when
\* that many attempts lie within the window is answered 429, leaves the
\* history as it was and is not handed to the handler
C34_HistoryBoundedAndRefused ==
    /\ [](Len(rl.hist) <= RATE_LIMIT_MAX_ATTEMPTS)
    /\ [][(/\ rl'.arrived = rl.arrived + 1
            /\ rl'.last # "passed"
            /\ Cardinality(InWindow) >= RATE_LIMIT_MAX_ATTEMPTS)
           => /\ rl'.last = "429"
              /\ rl'.hist = rl.hist
              /\ rl'.waiting = rl.waiting]_vars

\* a request was refused with ten attempts recorded while earlier
\* requests are still with the handler
C34_Witness ==
    /\ rl.last = "429"
    /\ Len(rl.hist) = RATE_LIMIT_MAX_ATTEMPTS
    /\ rl.waiting > 1

\* C35 as claimed: both ends of every edge that _bfs_subgraph returns are
\* among the nodes it returns
C35_SubgraphClosed ==
    kg.pc = "ret"
    => \A e \in kg.edges : e[1] \in kg.nodes /\ e[3] \in kg.nodes
====
